---- MODULE Spec2Model ----
(***************************************************************************)
(* A model of the plan execution engine (skill_engine/agent.py), the       *)
(* resilience invocation layer (skill_engine/skill_base.py) and the        *)
(* in-memory circuit breaker (skill_engine/resilience.py).                 *)
(*                                                                         *)
(* The module also models the plan-input placeholders of the agent and    *)
(* the long-term vector store (skill_engine/memory/faiss_backend.py).      *)
(*                                                                         *)
(* The specifications of the module:                                       *)
(*   Spec         one call of Agent.run                                    *)
(*   InvokeSpec   a sequence of safe_invoke calls on one skill key         *)
(*   BreakerSpec  several threads using one CircuitBreaker                 *)
(*   InvokeLiveSpec    InvokeSpec with the caller and the clock scheduled  *)
(*   PlaceholderSpec   the steps before a plan step, then its params       *)
(*   StoreSpec    a sequence of calls on one FAISSBackend                  *)
(*   FacadeSpec   a sequence of calls on one MemoryFacade                  *)
(*   RunnerSpec   one ContinuousLearningRunner, its callers and threads    *)
(*   RunnerLiveSpec    RunnerSpec with the event loop, the threads and the *)
(*                     clock scheduled                                     *)
(*   RedisSpec    one caller driving the in-memory breaker and the         *)
(*                Redis-backed breaker with the same operations            *)
(*   ReloadSpec   calls on a FAISSBackend, with processes that die and     *)
(*                backends opened anew over the same files                 *)
(*   RegistrySpec several threads calling get_or_create on one registry    *)
(***************************************************************************)
EXTENDS Integers, Sequences, FiniteSets, TLC

(***************************************************************************)
(* Bounds of the model.                                                    *)
(***************************************************************************)
\* largest max_steps (argument or configuration) explored
MaxSteps == 2
\* longest plan the planner returns
MaxPlanLen == 2
\* config.max_steps of the agent under test
ConfigMaxSteps == 1

(***************************************************************************)
(* Python values.  Every value is a record [k, s, n]: k is the kind, s the *)
(* text of a str, n the number of an int.                                  *)
(***************************************************************************)
Null == [k |-> "null", s |-> "", n |-> 0]
Absent == [k |-> "absent", s |-> "", n |-> 0]
PyList == [k |-> "list", s |-> "", n |-> 0]
Str(x) == [k |-> "str", s |-> x, n |-> 0]
PyInt(i) == [k |-> "int", s |-> "", n |-> i]

\* str(i) for the ints of the model
IntToStr(i) == CASE i = 0 -> "0" [] i = 1 -> "1" [] i = 7 -> "7" [] OTHER -> "int"

\* Python truthiness of a value
Truthy(v) ==
    CASE v.k = "str" -> v.s /= ""
      [] v.k = "int" -> v.n /= 0
      [] v.k = "list" -> TRUE
      [] OTHER -> FALSE

\* isinstance(val, (str, int, float))
IsScalar(v) == v.k \in {"str", "int"}

\* str(val) of a scalar
PyStr(v) == IF v.k = "int" THEN Str(IntToStr(v.n)) ELSE v

\* str.strip() on the texts of the model
Strip(x) == CASE x = " m " -> "m" [] x = " " -> "" [] OTHER -> x

\* clean.startswith("{") and "summary" in clean
LooksLikeDebugObject(x) == x = "{summary}"

(***************************************************************************)
(* Skill outputs.  A skill returns a dict (or a SkillOutput, to_dict-able   *)
(* object: normalized to a dict) or a plain str.                           *)
(***************************************************************************)
AnswerKeys == <<"final_answer", "summary", "answer", "output">>

\* a match of memory_search: a dict with a text, or something else
MatchItem(x) == [isdict |-> TRUE, text |-> x]
NonDictMatch == [isdict |-> FALSE, text |-> ""]

MatchLists ==
    { <<>>,
      <<MatchItem("q")>>,
      <<MatchItem("m")>>,
      <<MatchItem("{summary}")>>,
      <<MatchItem("q"), MatchItem(" m ")>>,
      <<MatchItem(" "), MatchItem("m")>>,
      <<NonDictMatch>> }

\* a dict output with the given answer keys and no matches key
Dict(fa, su, an, ou) ==
    [isdict |-> TRUE, raw |-> "", final_answer |-> fa, summary |-> su,
     answer |-> an, output |-> ou, has_matches |-> FALSE, matches |-> <<>>]

DictOutputs ==
    { Dict(Absent, Absent, Absent, Absent),
      Dict(Str("a"), Str("b"), Absent, Absent),
      Dict(Str(""), Absent, Absent, Absent),
      Dict(Str(""), Str("b"), Absent, Absent),
      Dict(PyList, Str("b"), Absent, Absent),
      Dict(PyInt(0), Absent, Absent, Absent),
      Dict(Absent, Str("b"), Str("c"), Absent),
      Dict(Absent, Absent, PyList, Str("o")),
      Dict(Absent, Absent, Absent, Str("o")) }

\* the output of a memory search: a matches list, and possibly an answer
MatchOutputs ==
    { [isdict |-> TRUE, raw |-> "", final_answer |-> Absent, summary |-> Absent,
       answer |-> an, output |-> Absent, has_matches |-> TRUE, matches |-> ms] :
        an \in {Absent}, ms \in MatchLists }
    \cup
    { [isdict |-> TRUE, raw |-> "", final_answer |-> Absent, summary |-> Absent,
       answer |-> Str("c"), output |-> Absent, has_matches |-> TRUE,
       matches |-> <<MatchItem("m")>>] }

\* a skill that returns a plain str
StrOutputs ==
    { [isdict |-> FALSE, raw |-> "s", final_answer |-> Absent, summary |-> Absent,
       answer |-> Absent, output |-> Absent, has_matches |-> FALSE, matches |-> <<>>] }

Outputs == DictOutputs \cup MatchOutputs \cup StrOutputs

\* structured_obs.get(key)
Get(out, key) ==
    CASE key = "final_answer" -> out.final_answer
      [] key = "summary" -> out.summary
      [] key = "answer" -> out.answer
      [] key = "output" -> out.output
      [] OTHER -> Absent

\* `not structured_obs`: None or an empty dict
ObsEmpty(out) ==
    \/ ~out.isdict
    \/ /\ \A i \in 1..Len(AnswerKeys) : Get(out, AnswerKeys[i]) = Absent
       /\ ~out.has_matches

\* str(skill_output)
StrOf(out) == IF out.isdict THEN "<repr>" ELSE out.raw

(***************************************************************************)
(* Agent.run: pure parts.                                                  *)
(***************************************************************************)
\* Agent._extract_answer_text: the first key, in priority order, whose
\* value is a str, int or float, as a str; None if there is none
RECURSIVE ExtractFrom(_, _)
ExtractFrom(out, i) ==
    IF i > Len(AnswerKeys) THEN Null
    ELSE IF IsScalar(Get(out, AnswerKeys[i])) THEN PyStr(Get(out, AnswerKeys[i]))
    ELSE ExtractFrom(out, i + 1)

ExtractAnswerText(out) == IF ObsEmpty(out) THEN Null ELSE ExtractFrom(out, 1)

\* Agent._replace_placeholders on one value of the input map
ReplacePlaceholder(v, last_result) ==
    IF v = Str("<LAST_RESULT>")
    THEN (IF Truthy(last_result) THEN last_result ELSE Str(""))
    ELSE v

\* Agent._prepare_plan_inputs
PreparePlanInputs(payload, last_result) ==
    [query |-> ReplacePlaceholder(payload.query, last_result),
     text |-> ReplacePlaceholder(payload.text, last_result)]

\* the loop over matches of the memory_search branch: the first match, from
\* position i on, that is a dict with a str text which, stripped, differs
\* from the query and does not look like a serialized debug object
RECURSIVE FirstUsableMatch(_, _, _)
FirstUsableMatch(matches, i, query_clean) ==
    IF i > Len(matches) THEN Null
    ELSE IF /\ matches[i].isdict
            /\ Strip(matches[i].text) /= query_clean
            /\ ~LooksLikeDebugObject(Strip(matches[i].text))
         THEN Str(Strip(matches[i].text))
         ELSE FirstUsableMatch(matches, i + 1, query_clean)

\* answer_text of the memory_search branch, with the fallback to the first
\* raw match when every match was filtered out
MemoryAnswer(matches, query_clean) ==
    IF Len(matches) = 0 THEN Null
    ELSE IF FirstUsableMatch(matches, 1, query_clean) /= Null
         THEN FirstUsableMatch(matches, 1, query_clean)
         ELSE IF matches[1].isdict THEN Str(matches[1].text) ELSE Null

\* params.get("query") or params.get("text") or query, stripped
QueryClean(params, q) ==
    IF Truthy(params.query) THEN Strip(params.query.s)
    ELSE IF Truthy(params.text) THEN Strip(params.text.s)
    ELSE Strip(q)

NoMatchAnswer == Str("I could not find anything in memory that answers that.")

\* the first termination check: an extracted answer ends the run unless
\* plan steps remain
SuccessOnExtract(extracted, is_plan_step, plan_remaining) ==
    Truthy(extracted) /\ (~is_plan_step \/ ~plan_remaining)

\* mutant: the candidate is promoted without testing that there is one
MutPostLoopPromote(candidate, failed) ==
    [status |-> IF ~failed THEN "success" ELSE "partial", final_answer |-> candidate]

\* the status fix-up after the loop, taken when no exit set the status
PostLoopResult(candidate, failed) ==
    IF Truthy(candidate)
    THEN [status |-> IF ~failed THEN "success" ELSE "partial", final_answer |-> candidate]
    ELSE [status |-> "partial", final_answer |-> Null]

\* max_steps = max_steps or self.config.max_steps
EffectiveMaxSteps(a, cfg) == IF a.given /\ a.n /= 0 THEN a.n ELSE cfg

\* mutant: the except clause around the skill call misses CircuitOpen
MutInnerHandlerCatches(kind) == kind \notin {"circuit_open", "base_exception"}

\* the except clause around the skill call is `except Exception`: it takes
\* every exception but a BaseException that is no Exception
\* (KeyboardInterrupt, SystemExit, GeneratorExit)
InnerHandlerCatches(kind) == kind /= "base_exception"

\* the top-level except clause of run is `except Exception` as well
OuterHandlerCatches(kind) == kind /= "base_exception"

(***************************************************************************)
(* Agent.run: state.                                                       *)
(***************************************************************************)
VARIABLES
    pc,                     \* no_agent: __init__ raised; else the position of the
                            \* run: idle, planning, loop, post, finally, done
    arg,                    \* the max_steps argument: [given, n]
    config_max_steps,       \* self.config.max_steps
    enable_memory,          \* self.config.enable_memory
    skills,                 \* names registered in self.engine.skills
    planner,                \* what the planner gave: none, absent, raised (an Exception),
                            \* raised_base (a BaseException that is no Exception),
                            \* unusable, no_usable (a list without a usable step), steps
    plan,                   \* plan.steps
    plan_used,
    max_steps,              \* the local max_steps after the `or`
    step_num,               \* iterations of the loop started so far
    plan_index,
    query,
    step_results,           \* result.step_results, as [success, is_plan, empty_matches]
    steps_completed,        \* result.steps_completed
    status,                 \* result.status
    final_answer,           \* result.final_answer
    memory_used,            \* whether result.memory_used was populated
    metadata_error,         \* result.metadata["error"]
    steps_taken,            \* result.metadata["steps_taken"]
    final_answer_candidate,
    last_result_text,
    failure_occurred,
    skills_invoked,
    memory_adds,            \* number of records this run added to the long-term tier
    outcome,                \* running, returned or raised (to the caller)
    loop_exit,              \* how the loop ended: none, exhausted, failure, success, nomatch,
                            \* error (except Exception of run took it), raise (an exception
                            \* that no except clause of run takes is on its way out)
    engine_exc,             \* an exception was raised by engine code outside a skill call
    skill_exc,              \* a routing failure or an exception of a skill call occurred
    base_exc,               \* the planner, the router or a skill raised a BaseException
                            \* that is no Exception (KeyboardInterrupt, SystemExit, ...)
    last_step,              \* the latest iteration: [ok, plan_left, present, scalar]
    status_writes           \* the values assigned to result.status so far, in order

agentVars == <<pc, arg, config_max_steps, enable_memory, skills, planner, plan, plan_used,
               max_steps, step_num, plan_index, query, step_results,
               steps_completed, status, final_answer, memory_used,
               metadata_error, steps_taken, final_answer_candidate,
               last_result_text, failure_occurred, skills_invoked, memory_adds,
               outcome, loop_exit, engine_exc, skill_exc, base_exc, last_step,
               status_writes>>

(***************************************************************************)
(* safe_invoke and the circuit breaker: state.                             *)
(***************************************************************************)
VARIABLES
    now,                    \* time.time(), in whole seconds
    sla,                    \* skill.sla: [timeout_seconds, retries, circuit_breaker]
    has_registry,           \* context.circuit_registry is not None
    registry,               \* the registry's breaker for the skill key, NoBreaker before it exists
    breaker_kind,           \* the local `breaker`: none, registry (shared object) or local (fresh object)
    local_cb,               \* state of a breaker built by safe_invoke itself
    ipc,                    \* position of safe_invoke: idle, loop, waiting, joining
    attempt,
    last_exc,               \* none, circuit_open, timeout, skill_error
    worker,                 \* the executor's worker: none, running, returned, or how
                            \* the skill raised (one of RaiseKinds)
    submitted_at,           \* time at which fut.result started to wait
    invocations,            \* times _call ran the skill in the current safe_invoke
    checked_at,             \* time of the current call's before_call
    calls,                  \* finished calls: [result, invoked, checked, end]
    events,                 \* what the current call logged so far: [msg, event]
    cb,                     \* the CircuitBreaker shared by the threads
    tpc,                    \* per thread: idle, checked, admitted, rejected
    trial,                  \* per thread: its admission was a half-open trial
    window,                 \* since the last move to half-open: [active, admitted, rejected]
    recovered,              \* a trial reported success and no failure was reported since
    since,                  \* before_call outcomes seen while recovered: [admitted, rejected]
    trial_failed_at         \* time of the last reported result if it was the failure of a
                            \* trial that found the breaker half-open, else NoTime

invokeVars == <<sla, has_registry, registry, breaker_kind, local_cb, ipc, attempt,
                last_exc, worker, submitted_at, invocations, checked_at, calls,
                events>>

breakerVars == <<cb, tpc, trial, window, recovered, since, trial_failed_at>>

(***************************************************************************)
(* Plan inputs (Agent._prepare_plan_inputs): state.                        *)
(***************************************************************************)
VARIABLES
    ph_pc,                  \* run: steps are taken; used: a plan step was consumed
    ph_given,               \* the input map as the planner gave it
    ph_input,               \* plan_step.input_data, as stored in the plan
    ph_last,                \* last_result_text
    ph_cand,                \* final_answer_candidate
    ph_steps,               \* steps taken before the plan step is consumed
    ph_params               \* params handed to the skill of the consumed step

placeholderVars == <<ph_pc, ph_given, ph_input, ph_last, ph_cand, ph_steps, ph_params>>

(***************************************************************************)
(* The long-term vector store (memory/faiss_backend.py): state.            *)
(***************************************************************************)
VARIABLES
    st_rows,                \* the vectors of self._index, row 0 first; None and an
                            \* empty index alike hold no row
    st_index_id_map,        \* self._index_id_map: row position -> record id
    st_id_to_index,         \* self._id_to_index: record id -> row position
    st_table,               \* memory_records: id -> [content, faiss_index]
    st_op,                  \* the last call made on the backend
    st_repeat,              \* the last call repeated the call before it
    st_result,              \* what the last search returned
    st_raised               \* the last call raised

storeVars == <<st_rows, st_index_id_map, st_id_to_index, st_table, st_op, st_repeat,
               st_result, st_raised>>

(***************************************************************************)
(* The memory facade (memory/facade.py, memory/tiers.py): state.           *)
(***************************************************************************)
VARIABLES
    fa_short,               \* short_term.backend: the contents of its records, oldest first
    fa_long,                \* long_term.backend
    fa_scratch,             \* scratchpad.backend
    fa_notes,               \* scratchpad.notes: the keys that hold a note
    fa_op,                  \* the last call made on the facade
    fa_stats                \* what the last stats() gave

facadeVars == <<fa_short, fa_long, fa_scratch, fa_notes, fa_op, fa_stats>>

(***************************************************************************)
(* The background loop (core/continuous_learning.py): state.               *)
(***************************************************************************)
VARIABLES
    rn_immediate,           \* self._run_immediately
    rn_task,                \* self._task: none, or where the task of _run_loop is:
                            \* created, in_tick, waiting, done (it returned or
                            \* was cancelled), failed (it ended with an exception
                            \* other than CancelledError)
    rn_event,               \* self._stop_event: none, clear, set
    rn_cancel,              \* cancel() was called on the task and not yet delivered
    rn_first,               \* _run_loop has not yet ticked or waited
    rn_wait,                \* time left of the wait_for of _run_loop
    rn_since,               \* time since start() or since the last tick of the loop
                            \* was over, up to Interval
    rn_tick_after,          \* rn_since when the tick in flight began, else 0
    rn_thread,              \* the worker thread of the tick of the loop
    rn_orphans,             \* threads still in a tick whose awaiter was cancelled
    rn_started,             \* ticks begun by the loop
    rn_stats,               \* self._stats
    rn_stopped,             \* stop() has returned and start() was not called since
    sp_pc,                  \* the caller of stop(): idle, awaiting
    sp_outcome,             \* how the last stop() ended: none, returned, raised
    tr_pc,                  \* the caller of trigger_once(): idle, in_tick
    tr_thread,              \* the worker thread of its tick
    tr_started,             \* ticks begun by trigger_once
    tr_calls,               \* calls of trigger_once that are over
    tr_outcome              \* how the last trigger_once ended

runnerVars == <<rn_immediate, rn_task, rn_event, rn_cancel, rn_first, rn_wait, rn_since,
                rn_tick_after, rn_thread, rn_orphans, rn_started, rn_stats, rn_stopped,
                sp_pc, sp_outcome, tr_pc, tr_thread, tr_started, tr_calls, tr_outcome>>

\* the state of the loop proper: what start, stop and _run_loop work on
loopVars == <<rn_task, rn_event, rn_cancel, rn_first, rn_wait, rn_tick_after, rn_thread,
              rn_started, rn_stopped>>

(***************************************************************************)
(* The Redis-backed breaker beside the in-memory one (resilience.py):      *)
(* state.  Each of two callers makes the same calls on the in-memory       *)
(* breaker and then through its own Redis-backed object; the calls of the  *)
(* two callers may interleave.                                             *)
(***************************************************************************)
VARIABLES
    rd_mem,                 \* the CircuitState of the in-memory CircuitBreaker
    rd_keys,                \* the three Redis keys of the circuit
    rd_last,                \* the last operation that returned: which it was, the
                            \* Redis-backed object it went through, and what
                            \* before_call or is_open gave on either side
    rd_prev,                \* the operation that returned before it; both are
                            \* kept while the calls are made one after the other
    rd_call,                \* per Redis-backed object, the call in progress: the
                            \* operation, the locked section, round trip or
                            \* reading of the clock it comes to next, what the
                            \* in-memory breaker gave, and the local value it
                            \* holds (the opened_at it read, or the time it read)
    rd_mixed                \* some call began, or the clock advanced, while a call
                            \* was in progress

redisVars == <<rd_mem, rd_keys, rd_last, rd_prev, rd_call, rd_mixed>>

(***************************************************************************)
(* What outlives the process of a FAISSBackend (memory/faiss_backend.py):  *)
(* state.  The database file is st_table; the index file is here.          *)
(***************************************************************************)
VARIABLES
    fl_file,                \* index.faiss: whether it exists, and the rows that
                            \* write_index left in it
    fl_phase,               \* clean; failed: an index save failed and none succeeded
                            \* since; reloaded: a backend was opened after a crash
                            \* or after a failed save
    fl_locked               \* the connection of a delete that raised is still open:
                            \* it holds its DELETEs uncommitted and the write lock
                            \* of the database

fileVars == <<fl_file, fl_phase, fl_locked>>

(***************************************************************************)
(* Concurrent callers of CircuitBreakerRegistry.get_or_create               *)
(* (resilience.py): state.                                                 *)
(***************************************************************************)
VARIABLES
    rg_lock,                \* the thread that holds self._lock, or NoThread
    rg_store,               \* self._store: key -> the breaker it holds, as the
                            \* number of the object and its cfg
    rg_objects,             \* the CircuitBreaker objects made so far, first first:
                            \* the key and the cfg each was made with
    rg_pc,                  \* where each thread is in get_or_create: idle, call,
                            \* held, tested
    rg_arg,                 \* the key and the cfg of its last call
    rg_missing,             \* what its test `key not in self._store` gave
    rg_got,                 \* what its last call that returned gave: the key asked
                            \* for and the object
    rg_calls                \* the calls it has made

regVars == <<rg_lock, rg_store, rg_objects, rg_pc, rg_arg, rg_missing, rg_got, rg_calls>>

\* the state of the parts that the agent, safe_invoke and the breaker leave alone
otherVars == <<placeholderVars, storeVars, facadeVars, runnerVars, redisVars, fileVars,
               regVars>>

\* what the plan inputs, the store, the facade and the runner leave alone of
\* these parts
besidePlaceholder == <<storeVars, facadeVars, runnerVars, redisVars, fileVars, regVars>>

besideStore == <<placeholderVars, facadeVars, runnerVars, redisVars, regVars>>

besideFacade == <<placeholderVars, storeVars, runnerVars, redisVars, fileVars, regVars>>

besideRunner == <<placeholderVars, storeVars, facadeVars, redisVars, fileVars, regVars>>

besideRedis == <<placeholderVars, storeVars, facadeVars, runnerVars, fileVars, regVars>>

besideRegistry == <<placeholderVars, storeVars, facadeVars, runnerVars, redisVars,
                    fileVars>>

SkillNames == {"memory_search", "question_answering", "missing"}

\* the skill sets an engine may hold, the planner apart; "missing" is never
\* registered
SkillSets == { {"memory_search"} \cup qa : qa \in {{}, {"question_answering"}} }

EmptyParams == [query |-> Absent, text |-> Absent]

\* a raw step of the planner's output: usable (a dict that names a skill) or not
RawSteps ==
    { [skill |-> "memory_search", input |-> [query |-> Str("q"), text |-> Absent], usable |-> TRUE],
      [skill |-> "question_answering", input |-> [query |-> Absent, text |-> Str("<LAST_RESULT>")], usable |-> TRUE],
      [skill |-> "missing", input |-> [query |-> Str("q"), text |-> Absent], usable |-> TRUE],
      [skill |-> "missing", input |-> EmptyParams, usable |-> FALSE] }

RECURSIVE SeqsUpTo(_, _)
SeqsUpTo(S, n) ==
    IF n = 0 THEN { <<>> }
    ELSE SeqsUpTo(S, n - 1) \cup
         { Append(q, x) : q \in { r \in SeqsUpTo(S, n - 1) : Len(r) = n - 1 }, x \in S }

\* mutant: every raw step becomes a plan step
RECURSIVE MutKeepUsable(_)
MutKeepUsable(raw) ==
    IF raw = <<>> THEN <<>>
    ELSE <<[skill |-> Head(raw).skill, input |-> Head(raw).input]>> \o MutKeepUsable(Tail(raw))

\* the steps Agent._generate_plan keeps: those that are dicts naming a skill
RECURSIVE KeepUsable(_)
KeepUsable(raw) ==
    IF raw = <<>> THEN <<>>
    ELSE IF Head(raw).usable
         THEN <<[skill |-> Head(raw).skill, input |-> Head(raw).input]>> \o KeepUsable(Tail(raw))
         ELSE KeepUsable(Tail(raw))

NoStep == [ok |-> FALSE, plan_left |-> FALSE, present |-> Absent, scalar |-> Null]

\* Agent.__init__.  It reads config.continuous_learning_enabled, which the
\* AgentConfig of config/__init__.py does not have: with that class the
\* construction raises AttributeError and there is no agent (no_agent); with
\* a config object that carries the attribute the agent stands idle
AgentInit ==
    /\ pc \in {"idle", "no_agent"}
    /\ arg = [given |-> FALSE, n |-> 0]
    /\ config_max_steps = ConfigMaxSteps
    /\ enable_memory \in BOOLEAN
    /\ skills \in SkillSets
    /\ planner = "none"
    /\ plan = <<>>
    /\ plan_used = FALSE
    /\ max_steps = 0
    /\ step_num = 0
    /\ plan_index = 0
    /\ query = ""
    /\ step_results = <<>>
    /\ steps_completed = 0
    /\ status = "none"
    /\ final_answer = Null
    /\ memory_used = FALSE
    /\ metadata_error = Null
    /\ steps_taken = 0
    /\ final_answer_candidate = Null
    /\ last_result_text = Null
    /\ failure_occurred = FALSE
    /\ skills_invoked = <<>>
    /\ memory_adds = 0
    /\ outcome = "none"
    /\ loop_exit = "none"
    /\ engine_exc = FALSE
    /\ skill_exc = FALSE
    /\ base_exc = FALSE
    /\ last_step = NoStep
    /\ status_writes = <<>>

(***************************************************************************)
(* Agent.run: actions.                                                     *)
(***************************************************************************)
ArgValues == {[given |-> FALSE, n |-> 0]} \cup [given : {TRUE}, n : 0..MaxSteps]

\* run(task, max_steps=a): the setup before planning
RunCall ==
    /\ UNCHANGED <<now, invokeVars, breakerVars, otherVars>>
    /\ pc = "idle"
    /\ \E a \in ArgValues :
        /\ arg' = a
        /\ max_steps' = EffectiveMaxSteps(a, config_max_steps)
    /\ query' = "q"
    /\ outcome' = "running"
    /\ pc' = "planning"
    /\ UNCHANGED <<config_max_steps, enable_memory, skills, planner, plan, plan_used,
                   step_num, plan_index, step_results, steps_completed, status,
                   final_answer, memory_used, metadata_error, steps_taken,
                   final_answer_candidate, last_result_text, failure_occurred,
                   skills_invoked, memory_adds, loop_exit, engine_exc, skill_exc, base_exc, last_step,
                   status_writes>>

\* what the planner gives: no planner is registered (absent), its invocation
\* raised an Exception (raised) or a BaseException that is none
\* (raised_base), its output is no dict or holds no list (unusable), or a
\* list of raw steps
PlannerOutcomes ==
    [kind : {"absent", "raised", "raised_base", "unusable"}, raw : {<<>>}]
    \cup [kind : {"steps"}, raw : SeqsUpTo(RawSteps, MaxPlanLen)]

\* what the planner gave; a step list that holds no dict naming a skill is
\* told apart from one that holds some
PlannerGave(po) ==
    IF po.kind = "steps" /\ (\A i \in DOMAIN po.raw : ~po.raw[i].usable)
    THEN "no_usable"
    ELSE po.kind

\* Agent._generate_plan, and the creation of the result.  _generate_plan
\* takes an Exception of the planner (except Exception, line 532); a
\* BaseException of the planner leaves run there, before the result is made
\* and outside the try block of run
GeneratePlan ==
    /\ UNCHANGED <<now, invokeVars, breakerVars, otherVars>>
    /\ pc = "planning"
    /\ \E po \in PlannerOutcomes :
        /\ planner' = PlannerGave(po)
        /\ plan' = IF po.kind = "steps" THEN KeepUsable(po.raw) ELSE <<>>
        /\ plan_used' = (plan' /= <<>>)
        /\ IF po.kind = "raised_base"
           THEN /\ pc' = "done"
                /\ outcome' = "raised"
                /\ loop_exit' = "raise"
                /\ base_exc' = TRUE
                /\ UNCHANGED <<status, status_writes>>
           ELSE /\ status' = "failed"
                /\ status_writes' = Append(status_writes, "failed")
                /\ pc' = "loop"
                /\ UNCHANGED <<outcome, loop_exit, base_exc>>
    /\ UNCHANGED <<arg, config_max_steps, enable_memory, skills, max_steps,
                   step_num, plan_index, query, step_results, steps_completed,
                   final_answer, memory_used, metadata_error, steps_taken,
                   final_answer_candidate, last_result_text, failure_occurred,
                   skills_invoked, memory_adds, engine_exc,
                   skill_exc, last_step>>

IsPlanStep == plan_index < Len(plan)

\* the parameter map of a route result: the default {"text": query}
RouterParams(q) == { [query |-> Absent, text |-> Str(q)] }

\* the source of the step: the next plan step, or what the router chose
StepSources ==
    IF IsPlanStep
    THEN { [is_plan |-> TRUE, skill |-> plan[plan_index + 1].skill,
            params |-> PreparePlanInputs(plan[plan_index + 1].input, last_result_text)] }
    ELSE [is_plan : {FALSE}, skill : SkillNames, params : RouterParams(query)]

NextPlanIndex == IF IsPlanStep THEN plan_index + 1 ELSE plan_index

\* the lookup of the skill, with the question_answering fallback
Dispatch(src) ==
    IF src.skill \in skills
    THEN [found |-> TRUE, skill |-> src.skill, params |-> src.params]
    ELSE IF "question_answering" \in skills
         THEN [found |-> TRUE, skill |-> "question_answering",
               params |-> [query |-> Str(query), text |-> Str(query)]]
         ELSE [found |-> FALSE, skill |-> src.skill, params |-> src.params]

\* the step ran memory_search and its output holds an empty matches list
EmptyMatches(d, out) ==
    d.skill = "memory_search" /\ out.isdict /\ out.has_matches /\ out.matches = <<>>

\* AgentResult.add_step_result
AddStepResult(sr) ==
    /\ step_results' = Append(step_results, sr)
    /\ steps_completed' = IF sr.success THEN steps_completed + 1 ELSE steps_completed

\* the top-level except clause: the run ends failed with the error text
EngineFailed ==
    /\ status' = "failed"
    /\ final_answer' = Null
    /\ metadata_error' = Str("error")
    /\ pc' = "finally"

\* an iteration whose routing raises: an Exception is taken by the except
\* clause of line 223, which records a failed step and breaks; a
\* BaseException that is no Exception passes it and the except clause of
\* line 485 and leaves run through the finally clause
IterRouteFail ==
    /\ UNCHANGED <<now, invokeVars, breakerVars, otherVars>>
    /\ pc = "loop"
    /\ step_num < max_steps
    /\ ~IsPlanStep
    /\ step_num' = step_num + 1
    /\ last_step' = NoStep
    /\ \E kind \in {"exception", "base_exception"} :
        IF kind = "exception"
        THEN /\ AddStepResult([success |-> FALSE, is_plan |-> FALSE,
                              empty_matches |-> FALSE])
             /\ failure_occurred' = TRUE
             /\ skill_exc' = TRUE
             /\ loop_exit' = "failure"
             /\ pc' = "post"
             /\ UNCHANGED base_exc
        ELSE /\ base_exc' = TRUE
             /\ loop_exit' = "raise"
             /\ pc' = "finally"
             /\ UNCHANGED <<step_results, steps_completed, failure_occurred, skill_exc>>
    /\ UNCHANGED <<arg, config_max_steps, enable_memory, skills, planner, plan, plan_used,
                   max_steps, plan_index, query, status, final_answer,
                   memory_used, metadata_error, steps_taken,
                   final_answer_candidate, last_result_text, skills_invoked,
                   memory_adds, outcome, engine_exc, status_writes>>

\* the exceptions of the try block around the skill call: the skill is not
\* there (not_found), or safe_invoke raises the Exception of the skill, its
\* TimeoutError, CircuitOpen, or a BaseException of the skill that went
\* through it (base_exception)
SkillErrors(d) ==
    IF d.found THEN {"exception", "timeout", "circuit_open", "base_exception"}
    ELSE {"not_found"}

\* mutant: a failed step always ends the loop
MutContinueAfterFailure(is_plan, plan_remaining) == FALSE

\* after a failed step: continue if is_plan_step and plan_index < len(plan.steps),
\* else break
ContinueAfterFailure(is_plan, plan_remaining) == is_plan /\ plan_remaining

\* an iteration whose skill is missing or whose safe_invoke raises
IterSkillFail ==
    /\ UNCHANGED <<now, invokeVars, breakerVars, otherVars>>
    /\ pc = "loop"
    /\ step_num < max_steps
    /\ \E src \in StepSources :
       \E kind \in SkillErrors(Dispatch(src)) :
        /\ step_num' = step_num + 1
        /\ plan_index' = NextPlanIndex
        /\ skill_exc' = (skill_exc \/ kind /= "base_exception")
        /\ base_exc' = (kind = "base_exception")
        /\ last_step' = NoStep
        /\ IF InnerHandlerCatches(kind)
           THEN /\ AddStepResult([success |-> FALSE, is_plan |-> src.is_plan,
                                 empty_matches |-> FALSE])
                /\ failure_occurred' = TRUE
                /\ IF ContinueAfterFailure(src.is_plan, plan_index' < Len(plan))
                   THEN pc' = "loop" /\ loop_exit' = loop_exit
                   ELSE pc' = "post" /\ loop_exit' = "failure"
                /\ UNCHANGED <<status, final_answer, metadata_error, status_writes>>
           ELSE /\ IF OuterHandlerCatches(kind)
                   THEN /\ EngineFailed
                        /\ loop_exit' = "error"
                        /\ status_writes' = Append(status_writes, "failed")
                   ELSE /\ pc' = "finally"
                        /\ loop_exit' = "raise"
                        /\ UNCHANGED <<status, final_answer, metadata_error, status_writes>>
                /\ UNCHANGED <<step_results, steps_completed, failure_occurred>>
    /\ UNCHANGED <<arg, config_max_steps, enable_memory, skills, planner, plan, plan_used,
                   max_steps, query, memory_used, steps_taken,
                   final_answer_candidate, last_result_text, skills_invoked,
                   memory_adds, outcome, engine_exc>>

\* the value of the first key among final_answer, summary, answer that the
\* output holds (Absent if it holds none of them)
FirstPresent(out) ==
    IF out.final_answer /= Absent THEN out.final_answer
    ELSE IF out.summary /= Absent THEN out.summary
    ELSE out.answer

\* the first value among those of final_answer, summary, answer that is a
\* str or an int, as a str (Null if there is none)
FirstScalar(out) ==
    IF IsScalar(out.final_answer) THEN PyStr(out.final_answer)
    ELSE IF IsScalar(out.summary) THEN PyStr(out.summary)
    ELSE IF IsScalar(out.answer) THEN PyStr(out.answer)
    ELSE Null

\* mutant: the memory_search branch ends the run whatever remains of the plan
MutStopHere(is_plan, plan_remaining) == TRUE

\* the memory_search branch may end the run: not (is_plan_step and plan_remaining)
StopHere(is_plan, plan_remaining) == ~(is_plan /\ plan_remaining)

\* What the part of an iteration after a successful skill call decides:
\* answer extraction, the memory write, and the termination checks in the
\* order of the code.  d is the dispatched skill, plan_remaining is taken
\* after the step was consumed.
Decide(out, d, is_plan, plan_remaining) ==
    LET extracted == ExtractAnswerText(out)
        has == Truthy(extracted)
        cand1 == IF has THEN extracted ELSE final_answer_candidate
        last1 == IF has THEN extracted
                 ELSE IF ~out.isdict THEN Str(out.raw) ELSE last_result_text
        gadd == IF ~out.isdict THEN Null
                ELSE IF has THEN extracted
                ELSE IF d.params.text.k = "str" THEN d.params.text ELSE Null
        mem_branch == d.skill = "memory_search" /\ out.isdict /\ out.has_matches
        answer_text == MemoryAnswer(out.matches, QueryClean(d.params, query))
        stop_here == StopHere(is_plan, plan_remaining)
        cand2 == IF mem_branch /\ Truthy(answer_text) THEN answer_text ELSE cand1
        last2 == IF mem_branch /\ Truthy(answer_text) THEN answer_text ELSE last1
    IN  IF SuccessOnExtract(extracted, is_plan, plan_remaining)
        THEN [exit |-> "success", status |-> "success", final |-> extracted,
              cand |-> cand1, last |-> last1, gadd |-> gadd, uadd |-> Null]
        ELSE IF mem_branch /\ Truthy(answer_text) /\ stop_here
        THEN [exit |-> "success", status |-> "success", final |-> answer_text,
              cand |-> cand2, last |-> last2, gadd |-> gadd, uadd |-> answer_text]
        ELSE IF mem_branch /\ ~Truthy(answer_text) /\ stop_here
        THEN [exit |-> "nomatch", status |-> "partial", final |-> NoMatchAnswer,
              cand |-> cand2, last |-> last2, gadd |-> gadd, uadd |-> NoMatchAnswer]
        ELSE IF plan_used /\ ~plan_remaining /\ Truthy(cand2) /\ ~Truthy(final_answer)
        THEN [exit |-> "success", status |-> "success", final |-> cand2,
              cand |-> cand2, last |-> last2, gadd |-> gadd, uadd |-> Null]
        ELSE [exit |-> "continue", status |-> status, final |-> final_answer,
              cand |-> cand2, last |-> last2, gadd |-> gadd, uadd |-> Null]

\* which memory call of an exit raises: none, the unguarded add, or recall_context
MemFailures(r) ==
    IF enable_memory /\ r.exit /= "continue"
    THEN {"none", "recall"} \cup (IF r.uadd /= Null THEN {"add"} ELSE {})
    ELSE {"none"}

\* 1 if the memory write has a text to add, else 0
Adds(v) == IF v = Null THEN 0 ELSE 1

\* an iteration whose skill call returns an output
IterSkillOk ==
    /\ UNCHANGED <<now, invokeVars, breakerVars, otherVars>>
    /\ pc = "loop"
    /\ step_num < max_steps
    /\ \E src \in StepSources, out \in Outputs, gfail \in BOOLEAN :
        LET d == Dispatch(src)
            plan_remaining == NextPlanIndex < Len(plan)
            r == Decide(out, d, src.is_plan, plan_remaining)
            gadds == IF enable_memory /\ ~gfail THEN Adds(r.gadd) ELSE 0
        IN  /\ d.found
            /\ gfail => (enable_memory /\ r.gadd /= Null)
            /\ \E mf \in MemFailures(r) :
                /\ step_num' = step_num + 1
                /\ plan_index' = NextPlanIndex
                /\ AddStepResult([success |-> TRUE, is_plan |-> src.is_plan,
                                  empty_matches |-> EmptyMatches(d, out)])
                /\ skills_invoked' = Append(skills_invoked, d.skill)
                /\ final_answer_candidate' = r.cand
                /\ last_result_text' = r.last
                /\ last_step' = [ok |-> TRUE, plan_left |-> plan_remaining,
                                 present |-> FirstPresent(out),
                                 scalar |-> FirstScalar(out)]
                /\ IF mf = "none"
                   THEN /\ status' = r.status
                        /\ final_answer' = r.final
                        /\ memory_used' = (memory_used \/ (enable_memory /\ r.exit /= "continue"))
                        /\ memory_adds' = memory_adds + gadds +
                                          (IF enable_memory THEN Adds(r.uadd) ELSE 0)
                        /\ query' = IF r.exit = "continue" THEN StrOf(out) ELSE query
                        /\ pc' = IF r.exit = "continue" THEN "loop" ELSE "post"
                        /\ loop_exit' = IF r.exit = "continue" THEN loop_exit ELSE r.exit
                        /\ status_writes' = IF r.exit = "continue" THEN status_writes
                                            ELSE Append(status_writes, r.status)
                        /\ UNCHANGED <<metadata_error, engine_exc>>
                   ELSE /\ EngineFailed
                        /\ engine_exc' = TRUE
                        /\ loop_exit' = "error"
                        /\ status_writes' =
                                IF mf = "recall"
                                THEN status_writes \o <<r.status, "failed">>
                                ELSE Append(status_writes, "failed")
                        /\ memory_adds' = memory_adds + gadds +
                                          (IF mf = "recall" THEN Adds(r.uadd) ELSE 0)
                        /\ UNCHANGED <<memory_used, query>>
    /\ UNCHANGED <<arg, config_max_steps, enable_memory, skills, planner, plan, plan_used,
                   max_steps, steps_taken, failure_occurred, outcome, skill_exc, base_exc>>

\* the for loop ends because range(1, max_steps + 1) is used up
LoopExhausted ==
    /\ UNCHANGED <<now, invokeVars, breakerVars, otherVars>>
    /\ pc = "loop"
    /\ step_num >= max_steps
    /\ loop_exit' = "exhausted"
    /\ pc' = "post"
    /\ UNCHANGED <<arg, config_max_steps, enable_memory, skills, planner, plan, plan_used,
                   max_steps, step_num, plan_index, query, step_results,
                   steps_completed, status, final_answer, memory_used,
                   metadata_error, steps_taken, final_answer_candidate,
                   last_result_text, failure_occurred, skills_invoked,
                   memory_adds, outcome, engine_exc, skill_exc, base_exc, last_step, status_writes>>

\* the code after the loop: a status still "failed" becomes success or partial
PostLoop ==
    /\ UNCHANGED <<now, invokeVars, breakerVars, otherVars>>
    /\ pc = "post"
    /\ IF status = "failed"
       THEN \E recall_fails \in {FALSE, enable_memory} :
            IF recall_fails
            THEN /\ EngineFailed
                 /\ engine_exc' = TRUE
                 /\ status_writes' = status_writes \o
                        <<PostLoopResult(final_answer_candidate, failure_occurred).status,
                          "failed">>
                 /\ UNCHANGED memory_used
            ELSE /\ status' = PostLoopResult(final_answer_candidate, failure_occurred).status
                 /\ final_answer' = PostLoopResult(final_answer_candidate, failure_occurred).final_answer
                 /\ status_writes' = Append(status_writes, status')
                 /\ memory_used' = enable_memory
                 /\ pc' = "finally"
                 /\ UNCHANGED <<metadata_error, engine_exc>>
       ELSE /\ pc' = "finally"
            /\ UNCHANGED <<status, final_answer, memory_used, metadata_error, engine_exc,
                           status_writes>>
    /\ UNCHANGED <<arg, config_max_steps, enable_memory, skills, planner, plan, plan_used,
                   max_steps, step_num, plan_index, query, step_results,
                   steps_completed, steps_taken, final_answer_candidate,
                   last_result_text, failure_occurred, skills_invoked,
                   memory_adds, outcome, loop_exit, skill_exc, base_exc, last_step>>

\* the finally clause and the return
Finalize ==
    /\ UNCHANGED <<now, invokeVars, breakerVars, otherVars>>
    /\ pc = "finally"
    /\ steps_taken' = Len(step_results)
    /\ outcome' = IF loop_exit = "raise" THEN "raised" ELSE "returned"
    /\ pc' = "done"
    /\ UNCHANGED <<arg, config_max_steps, enable_memory, skills, planner, plan, plan_used,
                   max_steps, step_num, plan_index, query, step_results,
                   steps_completed, status, final_answer, memory_used,
                   metadata_error, final_answer_candidate, last_result_text,
                   failure_occurred, skills_invoked, memory_adds, loop_exit,
                   engine_exc, skill_exc, base_exc, last_step, status_writes>>

AgentNext ==
    \/ RunCall
    \/ GeneratePlan
    \/ IterRouteFail
    \/ IterSkillFail
    \/ IterSkillOk
    \/ LoopExhausted
    \/ PostLoop
    \/ Finalize

(***************************************************************************)
(* Claims about Agent.run.                                                 *)
(***************************************************************************)
SuccessCount == Cardinality({ i \in DOMAIN step_results : step_results[i].success })

\* C1: for every call run(task, max_steps=N) the returned result has at most
\* N step results, and steps_completed is the number of its step results
\* whose success flag is true.
C1_StepBound ==
    (pc = "done" /\ arg.given) =>
        /\ Len(step_results) <= arg.n
        /\ steps_completed = SuccessCount

\* C2: every result returned with status = success has a non-null
\* final_answer, whichever exit produced it.
C2_SuccessHasAnswer ==
    (pc = "done" /\ status = "success") => final_answer /= Null

\* a run whose loop ran out of iterations and whose cached candidate was
\* promoted to the final answer after the loop
C2_Witness ==
    /\ pc = "done"
    /\ status = "success"
    /\ loop_exit = "exhausted"
    /\ final_answer /= Null

\* C3: if the output of a successful step holds final_answer, summary or
\* answer and no plan step remains after it, the run ends with status =
\* success and final_answer equal to the extracted value.  The claim is taken
\* where the extraction gives what it says: the first of these keys that is
\* present holds a str or a number, and its str is not empty.  With memory
\* enabled the success exit calls recall_context after it has set the status
\* (line 364); when that call raises, the run ends with status = failed and
\* a null final_answer.
C3_AnswerEndsRunWithSuccess ==
    (/\ pc = "done"
     /\ last_step.ok
     /\ last_step.present /= Absent
     /\ PyStr(last_step.present) = last_step.scalar
     /\ Truthy(last_step.scalar)
     /\ ~last_step.plan_left)
    => (status = "success" /\ final_answer = last_step.scalar)

\* C4: if the loop performs all max_steps iterations without a success exit,
\* the result has status = partial and a null final_answer.  The claim is
\* taken for the runs in which no candidate answer was cached, the ones the
\* code after the loop makes partial (lines 477-481).  With memory enabled
\* recall_context is called there after the status has been set (line 481);
\* when that call raises, the run ends with status = failed.
C4_ExhaustedGivesPartial ==
    (/\ pc = "done"
     /\ loop_exit = "exhausted"
     /\ ~Truthy(final_answer_candidate))
    => (status = "partial" /\ final_answer = Null)

\* C5: while what goes wrong are errors of the task (a routing failure, a
\* missing skill, an Exception, a timeout or CircuitOpen raised by
\* safe_invoke), run returns a result and never raises; status = failed only
\* comes with an exception of engine code outside a skill call, and then
\* metadata.error holds its text.  run raises in one case only, which is no
\* error of the task: the planner, the router or a skill raised a
\* BaseException that is no Exception (KeyboardInterrupt, SystemExit), which
\* no except clause of run takes.
C5_FailedOnlyOnEngineError ==
    (pc = "done") =>
        /\ outcome \in {"returned", "raised"}
        /\ outcome = "raised" <=> base_exc
        /\ outcome = "returned" =>
            /\ status \in {"success", "partial", "failed"}
            /\ (status = "failed") => (engine_exc /\ metadata_error /= Null)

\* a returned run in which a step failed and which is not failed
C5_Witness ==
    /\ pc = "done"
    /\ skill_exc
    /\ ~engine_exc
    /\ outcome = "returned"
    /\ status = "partial"

(***************************************************************************)
(* The in-memory circuit breaker (resilience.py).  A breaker is the record *)
(* [failures, opened_at, half_open, trials]: the three fields of           *)
(* CircuitState and CircuitBreaker._half_open_trials.                      *)
(***************************************************************************)
\* the configuration the tests give the breaker
FailureThreshold == 2
RecoveryTimeout == 1
HalfOpenTrialRequests == 1

\* opened_at = None
NoTime == -1

\* CircuitBreaker.__init__
CbNew == [failures |-> 0, opened_at |-> NoTime, half_open |-> FALSE, trials |-> 0]

\* the recovery timeout has elapsed at time t
Elapsed(b, t) == t - b.opened_at >= RecoveryTimeout

\* what is_open returns at time t
IsOpen(b, t) == b.opened_at /= NoTime /\ ~Elapsed(b, t)

\* the breaker after is_open ran at time t: past the recovery timeout it
\* becomes half-open
AfterIsOpen(b, t) ==
    IF b.opened_at /= NoTime /\ Elapsed(b, t)
    THEN [b EXCEPT !.half_open = TRUE, !.trials = 0, !.opened_at = NoTime]
    ELSE b

\* mutant: one trial more than the limit passes
MutTrialLimitReached(b) == b.half_open /\ b.trials > HalfOpenTrialRequests

\* the second locked section of before_call raises CircuitOpen
TrialLimitReached(b) == b.half_open /\ b.trials >= HalfOpenTrialRequests

\* mutant: every call that passes is counted as a trial
MutAfterTrial(b) == [b EXCEPT !.trials = b.trials + 1]

\* the breaker after the second locked section of before_call let a call pass
AfterTrial(b) == IF b.half_open THEN [b EXCEPT !.trials = b.trials + 1] ELSE b

\* mutant: a success closes the circuit but keeps the failure count
MutOnSuccess(b) == [b EXCEPT !.opened_at = NoTime, !.half_open = FALSE, !.trials = 0]

\* mutant: a success clears the count and opened_at but leaves the breaker half-open
MutOnSuccessHalfOpen(b) == [b EXCEPT !.failures = 0, !.opened_at = NoTime]

\* on_success: a fresh CircuitState, no trials
OnSuccess(b) == CbNew

\* mutant: the circuit opens one failure late
MutOnFailure(b, t) ==
    IF b.failures + 1 > FailureThreshold
    THEN [failures |-> b.failures + 1, opened_at |-> t, half_open |-> FALSE, trials |-> 0]
    ELSE [b EXCEPT !.failures = b.failures + 1]

\* mutant: a failure reported to a half-open breaker is counted and no more
MutOnFailureNoReopen(b, t) ==
    IF b.failures + 1 >= FailureThreshold /\ ~b.half_open
    THEN [failures |-> b.failures + 1, opened_at |-> t, half_open |-> FALSE, trials |-> 0]
    ELSE [b EXCEPT !.failures = b.failures + 1]

\* on_failure at time t: one failure more; at the threshold the circuit opens
OnFailure(b, t) ==
    IF b.failures + 1 >= FailureThreshold
    THEN [failures |-> b.failures + 1, opened_at |-> t, half_open |-> FALSE, trials |-> 0]
    ELSE [b EXCEPT !.failures = b.failures + 1]

\* before_call as one caller runs it at time t: the breaker it leaves and
\* whether CircuitOpen was raised
BeforeCall(b, t) ==
    IF IsOpen(b, t) THEN [cb |-> AfterIsOpen(b, t), open |-> TRUE]
    ELSE IF TrialLimitReached(AfterIsOpen(b, t))
         THEN [cb |-> AfterIsOpen(b, t), open |-> TRUE]
         ELSE [cb |-> AfterTrial(AfterIsOpen(b, t)), open |-> FALSE]

(***************************************************************************)
(* safe_invoke (skill_base.py): a caller makes one call after another on   *)
(* one skill; the skill runs on the worker of a one-thread executor.       *)
(***************************************************************************)
\* last value of the clock
MaxTime == 2
\* safe_invoke calls made by the caller
MaxCalls == 3
\* largest sla.retries
MaxRetries == 2

SlaValues == [timeout_seconds : {0, 1}, retries : 0..MaxRetries, circuit_breaker : BOOLEAN]

\* mutant: the loop test lets one attempt more through
MutMaxAttempts(s) == IF s.retries > 1 THEN s.retries + 1 ELSE 2

\* max(1, sla.retries)
MaxAttempts(s) == IF s.retries > 1 THEN s.retries ELSE 1

\* the state of the object the local `breaker` names
Cur == IF breaker_kind = "registry" THEN registry.cb ELSE local_cb

\* a method of `breaker` left it in state b
SetCur(b) ==
    IF breaker_kind = "registry"
    THEN registry' = [registry EXCEPT !.cb = b] /\ UNCHANGED local_cb
    ELSE local_cb' = b /\ UNCHANGED registry

\* a record given to the logger: its message and the event field of its extra
Logged(msg, event) == [msg |-> msg, event |-> event]

\* what the except clause that handles exc logs: logger.warning("skill_timeout",
\* event skill_timeout) or logger.exception("skill_exception", event skill_failed)
HandlerLog(exc) ==
    IF exc = "timeout" THEN Logged("skill_timeout", "skill_timeout")
    ELSE Logged("skill_exception", "skill_failed")

InvokeIdle ==
    /\ sla = [timeout_seconds |-> 1, retries |-> 1, circuit_breaker |-> FALSE]
    /\ has_registry = FALSE
    /\ registry = [exists |-> FALSE, cb |-> CbNew]
    /\ breaker_kind = "none"
    /\ local_cb = CbNew
    /\ ipc = "idle"
    /\ attempt = 0
    /\ last_exc = "none"
    /\ worker = "none"
    /\ submitted_at = NoTime
    /\ invocations = 0
    /\ checked_at = NoTime
    /\ calls = <<>>
    /\ events = <<>>

\* the caller's context and the skill's SLA are fixed before the first call.
\* safe_invoke reads context.circuit_registry only where sla.circuit_breaker
\* is set, so the contexts with a registry are taken with such an SLA
InvokeInit ==
    /\ sla \in SlaValues
    /\ has_registry \in BOOLEAN
    /\ has_registry => sla.circuit_breaker
    /\ registry = [exists |-> FALSE, cb |-> CbNew]
    /\ breaker_kind = "none"
    /\ local_cb = CbNew
    /\ ipc = "idle"
    /\ attempt = 0
    /\ last_exc = "none"
    /\ worker = "none"
    /\ submitted_at = NoTime
    /\ invocations = 0
    /\ checked_at = NoTime
    /\ calls = <<>>
    /\ events = <<>>

\* entry of safe_invoke up to the loop: the breaker is looked up in the
\* registry of the context, or built anew when the context has none.  The
\* caller makes at most MaxCalls calls, and none after a KeyboardInterrupt
\* or SystemExit of the skill has reached it
InvokeStart ==
    /\ ipc = "idle"
    /\ Len(calls) < MaxCalls
    /\ \A i \in 1..Len(calls) : calls[i].result /= "base_exception"
    /\ attempt' = 0
    /\ last_exc' = "none"
    /\ IF sla.circuit_breaker
       THEN IF has_registry
            THEN /\ registry' = IF registry.exists THEN registry
                                ELSE [exists |-> TRUE, cb |-> CbNew]
                 /\ breaker_kind' = "registry"
                 /\ UNCHANGED local_cb
            ELSE /\ local_cb' = CbNew
                 /\ breaker_kind' = "local"
                 /\ UNCHANGED registry
       ELSE /\ breaker_kind' = "none"
            /\ UNCHANGED <<registry, local_cb>>
    /\ worker' = "none"
    /\ invocations' = 0
    /\ checked_at' = NoTime
    /\ submitted_at' = NoTime
    /\ events' = <<Logged("skill_started", "skill_started")>>
    /\ ipc' = "loop"
    /\ UNCHANGED <<now, sla, has_registry, calls, agentVars, breakerVars, otherVars>>

\* safe_invoke leaves: result is ok or the kind of the exception raised
Leave(result, checked) ==
    /\ calls' = Append(calls, [result |-> result, invoked |-> invocations,
                               checked |-> checked, end |-> now])
    /\ ipc' = "idle"

\* what safe_invoke does when before_call raises CircuitOpen: the loop is
\* left and CircuitOpen is raised to the caller
RaiseCircuitOpen(checked) ==
    /\ last_exc' = "circuit_open"
    /\ events' = events \o <<Logged("circuit_open", "circuit_open"),
                             Logged("skill_failed", "skill_failed")>>
    /\ Leave("circuit_open", checked)

\* an attempt begins and before_call runs its first locked section: is_open
\* answers True and CircuitOpen is raised
AttemptRejected ==
    /\ ipc = "loop"
    /\ attempt < MaxAttempts(sla)
    /\ breaker_kind /= "none"
    /\ IsOpen(Cur, now)
    /\ attempt' = attempt + 1
    /\ SetCur(AfterIsOpen(Cur, now))
    /\ checked_at' = now
    /\ RaiseCircuitOpen(now)
    /\ UNCHANGED <<now, sla, has_registry, breaker_kind, worker, submitted_at,
                   invocations, agentVars, breakerVars, otherVars>>

\* an attempt begins and before_call runs its first locked section: is_open
\* answers False, moving the breaker to half-open when the recovery timeout
\* has elapsed on the clock it reads
AttemptNotOpen ==
    /\ ipc = "loop"
    /\ attempt < MaxAttempts(sla)
    /\ breaker_kind /= "none"
    /\ ~IsOpen(Cur, now)
    /\ attempt' = attempt + 1
    /\ SetCur(AfterIsOpen(Cur, now))
    /\ checked_at' = now
    /\ ipc' = "checked"
    /\ UNCHANGED <<now, sla, has_registry, breaker_kind, last_exc, worker,
                   submitted_at, invocations, calls, events, agentVars, breakerVars,
                   otherVars>>

\* before_call, second locked section: a half-open breaker whose trial limit
\* is reached raises CircuitOpen, else the attempt passes the breaker, as a
\* trial when the breaker is half-open
AttemptTrialSection ==
    /\ ipc = "checked"
    /\ IF TrialLimitReached(Cur)
       THEN /\ RaiseCircuitOpen(checked_at)
            /\ UNCHANGED <<registry, local_cb>>
       ELSE /\ SetCur(AfterTrial(Cur))
            /\ ipc' = "admitted"
            /\ UNCHANGED <<last_exc, calls, events>>
    /\ UNCHANGED <<now, sla, has_registry, breaker_kind, attempt, worker,
                   submitted_at, invocations, checked_at, agentVars, breakerVars,
                   otherVars>>

\* the call is submitted to the executor and the caller starts to wait for
\* the future, after before_call has returned or, without a breaker, as the
\* attempt begins.  The timeout of fut.result runs from this step
AttemptSubmit ==
    /\ IF breaker_kind /= "none"
       THEN /\ ipc = "admitted"
            /\ UNCHANGED attempt
       ELSE /\ ipc = "loop"
            /\ attempt < MaxAttempts(sla)
            /\ attempt' = attempt + 1
    /\ worker' = "running"
    /\ invocations' = invocations + 1
    /\ submitted_at' = now
    /\ ipc' = "waiting"
    /\ UNCHANGED <<now, sla, has_registry, registry, breaker_kind, local_cb, last_exc,
                   checked_at, calls, events, agentVars, breakerVars, otherVars>>

\* the skill returns on the worker
WorkerReturn ==
    /\ worker = "running"
    /\ worker' = "returned"
    /\ UNCHANGED <<now, sla, has_registry, registry, breaker_kind, local_cb, ipc,
                   attempt, last_exc, submitted_at, invocations, checked_at, calls,
                   events, agentVars, breakerVars, otherVars>>

\* what a skill may raise, by the except clause of the loop that takes it:
\* an Exception (raised), a TimeoutError of its own, which is the class
\* concurrent.futures.TimeoutError names (raised_timeout), or a
\* BaseException such as KeyboardInterrupt, which no clause takes
\* (raised_base)
RaiseKinds == {"raised", "raised_timeout", "raised_base"}

\* the skill raises on the worker; the future keeps the exception
WorkerRaise(kind) ==
    /\ worker = "running"
    /\ worker' = kind
    /\ UNCHANGED <<now, sla, has_registry, registry, breaker_kind, local_cb, ipc,
                   attempt, last_exc, submitted_at, invocations, checked_at, calls,
                   events, agentVars, breakerVars, otherVars>>

\* fut.result gives the value of a finished future, whatever the timeout
ResultReady ==
    /\ ipc = "waiting"
    /\ worker = "returned"
    /\ IF breaker_kind /= "none" THEN SetCur(OnSuccess(Cur))
       ELSE UNCHANGED <<registry, local_cb>>
    /\ events' = Append(events, Logged("skill_succeeded", "skill_succeeded"))
    /\ Leave("ok", checked_at)
    /\ UNCHANGED <<now, sla, has_registry, breaker_kind, attempt, last_exc, worker,
                   submitted_at, invocations, checked_at, agentVars, breakerVars, otherVars>>

\* mutant: with a breaker the failure is recorded but the loop goes on
MutFailed(exc) ==
    /\ last_exc' = exc
    /\ IF breaker_kind /= "none" THEN SetCur(OnFailure(Cur, now))
       ELSE UNCHANGED <<registry, local_cb>>
    /\ IF attempt < MaxAttempts(sla)
       THEN /\ ipc' = "loop"
            /\ worker' = "none"
            /\ events' = Append(events, HandlerLog(exc))
            /\ UNCHANGED calls
       ELSE /\ events' = events \o <<HandlerLog(exc), Logged("skill_failed", "skill_failed")>>
            /\ Leave(exc, checked_at)
            /\ UNCHANGED worker

\* an except clause of the loop handled exception exc
Failed(exc) ==
    /\ last_exc' = exc
    /\ IF breaker_kind /= "none"
       THEN /\ SetCur(OnFailure(Cur, now))
            /\ events' = events \o <<HandlerLog(exc), Logged("skill_failed", "skill_failed")>>
            /\ Leave(exc, checked_at)
            /\ UNCHANGED worker
       ELSE /\ UNCHANGED <<registry, local_cb>>
            /\ IF attempt < MaxAttempts(sla)
               THEN /\ ipc' = "loop"
                    /\ worker' = "none"
                    /\ events' = Append(events, HandlerLog(exc))
                    /\ UNCHANGED calls
               ELSE /\ events' = events \o <<HandlerLog(exc),
                                             Logged("skill_failed", "skill_failed")>>
                    /\ Leave(exc, checked_at)
                    /\ UNCHANGED worker

\* fut.result re-raises the exception of a finished future.  A TimeoutError
\* of the skill goes to the clause for timeouts, another Exception to the
\* clause after it; a BaseException goes through safe_invoke to the caller:
\* nothing is logged, the breaker is told nothing, no attempt follows
ResultRaised ==
    /\ ipc = "waiting"
    /\ worker \in RaiseKinds
    /\ IF worker = "raised_base"
       THEN /\ Leave("base_exception", checked_at)
            /\ UNCHANGED <<registry, local_cb, last_exc, worker, events>>
       ELSE Failed(IF worker = "raised_timeout" THEN "timeout" ELSE "skill_error")
    /\ UNCHANGED <<now, sla, has_registry, breaker_kind, attempt, submitted_at,
                   invocations, checked_at, agentVars, breakerVars, otherVars>>

\* fut.result gives up on a future that is not finished after the timeout;
\* leaving the `with` block then waits for the worker
ResultTimeout ==
    /\ ipc = "waiting"
    /\ worker = "running"
    /\ now - submitted_at >= sla.timeout_seconds
    /\ ipc' = "joining"
    /\ UNCHANGED <<now, sla, has_registry, registry, breaker_kind, local_cb, attempt,
                   last_exc, worker, submitted_at, invocations, checked_at, calls,
                   events, agentVars, breakerVars, otherVars>>

\* the executor has shut down and the TimeoutError reaches its handler
JoinDone ==
    /\ ipc = "joining"
    /\ worker \in {"returned"} \cup RaiseKinds
    /\ Failed("timeout")
    /\ UNCHANGED <<now, sla, has_registry, breaker_kind, attempt, submitted_at,
                   invocations, checked_at, agentVars, breakerVars, otherVars>>

\* a second passes
Tick ==
    /\ now < MaxTime
    /\ now' = now + 1
    /\ UNCHANGED <<invokeVars, agentVars, breakerVars, otherVars>>

(***************************************************************************)
(* Concurrent callers of one CircuitBreaker.  Each thread does what        *)
(* safe_invoke does with its breaker: before_call, then on_success or      *)
(* on_failure.  A step is one locked section of the breaker.               *)
(***************************************************************************)
\* threads that share the breaker
NumThreads == 2

Threads == 1..NumThreads

NoWindow == [active |-> FALSE, admitted |-> 0, rejected |-> FALSE]

NothingSince == [admitted |-> FALSE, rejected |-> FALSE]

BreakerIdle ==
    /\ cb = CbNew
    /\ tpc = [t \in Threads |-> "idle"]
    /\ trial = [t \in Threads |-> FALSE]
    /\ window = NoWindow
    /\ recovered = FALSE
    /\ since = NothingSince
    /\ trial_failed_at = NoTime

\* before_call, first section: is_open answers True and CircuitOpen is raised
CallOpen(t) ==
    /\ tpc[t] \in {"idle", "rejected"}
    /\ IsOpen(cb, now)
    /\ cb' = AfterIsOpen(cb, now)
    /\ tpc' = [tpc EXCEPT ![t] = "rejected"]
    /\ window' = IF window.active THEN [window EXCEPT !.rejected = TRUE] ELSE window
    /\ since' = IF recovered THEN [since EXCEPT !.rejected = TRUE] ELSE since
    /\ UNCHANGED <<now, trial, recovered, trial_failed_at, invokeVars, agentVars, otherVars>>

\* before_call, first section: is_open answers False, moving the breaker to
\* half-open when the recovery timeout has elapsed
CallNotOpen(t) ==
    /\ tpc[t] \in {"idle", "rejected"}
    /\ ~IsOpen(cb, now)
    /\ cb' = AfterIsOpen(cb, now)
    /\ tpc' = [tpc EXCEPT ![t] = "checked"]
    /\ window' = IF cb.opened_at /= NoTime
                 THEN [active |-> TRUE, admitted |-> 0, rejected |-> FALSE]
                 ELSE window
    /\ UNCHANGED <<now, trial, recovered, since, trial_failed_at, invokeVars, agentVars,
                   otherVars>>

\* before_call, second section: the call passes
CallAdmitted(t) ==
    /\ tpc[t] = "checked"
    /\ ~TrialLimitReached(cb)
    /\ cb' = AfterTrial(cb)
    /\ tpc' = [tpc EXCEPT ![t] = "admitted"]
    /\ trial' = [trial EXCEPT ![t] = cb.half_open]
    /\ window' = IF window.active
                 THEN [window EXCEPT !.admitted = window.admitted + 1]
                 ELSE window
    /\ since' = IF recovered THEN [since EXCEPT !.admitted = TRUE] ELSE since
    /\ UNCHANGED <<now, recovered, trial_failed_at, invokeVars, agentVars, otherVars>>

\* before_call, second section: the trial limit is reached, CircuitOpen
CallLimit(t) ==
    /\ tpc[t] = "checked"
    /\ TrialLimitReached(cb)
    /\ tpc' = [tpc EXCEPT ![t] = "rejected"]
    /\ window' = IF window.active THEN [window EXCEPT !.rejected = TRUE] ELSE window
    /\ since' = IF recovered THEN [since EXCEPT !.rejected = TRUE] ELSE since
    /\ UNCHANGED <<now, cb, trial, recovered, trial_failed_at, invokeVars, agentVars,
                   otherVars>>

\* the admitted call succeeded: on_success
ReportSuccess(t) ==
    /\ tpc[t] = "admitted"
    /\ cb' = OnSuccess(cb)
    /\ tpc' = [tpc EXCEPT ![t] = "idle"]
    /\ trial' = [trial EXCEPT ![t] = FALSE]
    /\ window' = NoWindow
    /\ recovered' = (recovered \/ trial[t])
    /\ since' = IF trial[t] THEN NothingSince ELSE since
    /\ trial_failed_at' = NoTime
    /\ UNCHANGED <<now, invokeVars, agentVars, otherVars>>

\* the admitted call failed: on_failure
ReportFailure(t) ==
    /\ tpc[t] = "admitted"
    /\ cb' = OnFailure(cb, now)
    /\ tpc' = [tpc EXCEPT ![t] = "idle"]
    /\ trial' = [trial EXCEPT ![t] = FALSE]
    /\ window' = NoWindow
    /\ recovered' = FALSE
    /\ since' = NothingSince
    /\ trial_failed_at' = IF trial[t] /\ cb.half_open THEN now ELSE NoTime
    /\ UNCHANGED <<now, invokeVars, agentVars, otherVars>>

(***************************************************************************)
(* Plan inputs: Agent._prepare_plan_inputs and _replace_placeholders on    *)
(* nested values, and the two variables of Agent.run that the steps        *)
(* before a plan step leave behind.  A value is the record                 *)
(* [k, s, keys, items]: a str or int leaf, a list of items, or a dict of   *)
(* keys and items.                                                         *)
(***************************************************************************)
\* longest list in a plan input
MaxListLen == 2
\* steps taken before the plan step is consumed
MaxPriorSteps == 2

TStr(x) == [k |-> "str", s |-> x, keys |-> <<>>, items |-> <<>>]
TInt(x) == [k |-> "int", s |-> x, keys |-> <<>>, items |-> <<>>]
TList(items) == [k |-> "list", s |-> "", keys |-> <<>>, items |-> items]
TDict(keys, items) == [k |-> "dict", s |-> "", keys |-> keys, items |-> items]

Placeholder == TStr("<LAST_RESULT>")

Leaves == { Placeholder, TStr("x"), TStr("<LAST_RESULT>!"), TInt("1") }

\* values under the text key: leaves, lists of leaves, a dict of one leaf
TextValues ==
    Leaves
    \cup { TList(q) : q \in SeqsUpTo(Leaves, MaxListLen) }
    \cup { TDict(<<"k">>, <<v>>) : v \in Leaves }

\* values under the opts key: a dict that holds a list
OptsValues ==
    { TStr("x"),
      TDict(<<"tags">>, <<TList(<<Placeholder, TStr("x")>>)>>) }

PlanInputs == { TDict(<<"text", "opts">>, <<a, b>>) : a \in TextValues, b \in OptsValues }

\* last_result or ""
LastOrEmpty(last_result) == IF Truthy(last_result) THEN last_result.s ELSE ""

\* mutant: lists are passed on as they are
RECURSIVE MutReplacePlaceholders(_, _)
MutReplacePlaceholders(value, last_result) ==
    IF value.k = "dict"
    THEN [value EXCEPT !.items =
            [i \in DOMAIN value.items |-> MutReplacePlaceholders(value.items[i], last_result)]]
    ELSE IF value = Placeholder THEN TStr(LastOrEmpty(last_result))
    ELSE value

\* Agent._replace_placeholders
RECURSIVE ReplacePlaceholders(_, _)
ReplacePlaceholders(value, last_result) ==
    IF value.k \in {"dict", "list"}
    THEN [value EXCEPT !.items =
            [i \in DOMAIN value.items |-> ReplacePlaceholders(value.items[i], last_result)]]
    ELSE IF value.k = "str" /\ value.s = "<LAST_RESULT>"
    THEN TStr(LastOrEmpty(last_result))
    ELSE value

\* what a step before the plan step leaves: an extracted answer, the text of
\* a memory match, a plain str output, or nothing (no answer, or a failure)
PriorOutcomes ==
    { [kind |-> "answer", text |-> "a"],
      [kind |-> "answer", text |-> "b"],
      [kind |-> "memory", text |-> "m"],
      [kind |-> "str", text |-> "s"],
      [kind |-> "nothing", text |-> ""] }

PlaceholderIdle ==
    /\ ph_pc = "run"
    /\ ph_given = TDict(<<"text", "opts">>, <<TStr("x"), TStr("x")>>)
    /\ ph_input = ph_given
    /\ ph_last = Null
    /\ ph_cand = Null
    /\ ph_steps = 0
    /\ ph_params = TDict(<<>>, <<>>)

\* the start of Agent.run with a plan whose next step has the given input
PlaceholderInit ==
    /\ ph_pc = "run"
    /\ ph_given \in PlanInputs
    /\ ph_input = ph_given
    /\ ph_last = Null
    /\ ph_cand = Null
    /\ ph_steps = 0
    /\ ph_params = TDict(<<>>, <<>>)

\* a step of the run before the plan step: what it does to
\* final_answer_candidate and last_result_text
PriorStep ==
    /\ ph_pc = "run"
    /\ ph_steps < MaxPriorSteps
    /\ ph_steps' = ph_steps + 1
    /\ \E o \in PriorOutcomes :
        /\ ph_cand' = IF o.kind \in {"answer", "memory"} THEN Str(o.text) ELSE ph_cand
        /\ ph_last' = IF o.kind \in {"answer", "memory", "str"} THEN Str(o.text) ELSE ph_last
    /\ UNCHANGED <<ph_pc, ph_given, ph_input, ph_params, now, agentVars, invokeVars,
                   breakerVars, besidePlaceholder>>

\* the plan step is consumed: params are a deep copy of its input with the
\* placeholders replaced
ConsumePlanStep ==
    /\ ph_pc = "run"
    /\ ph_params' = ReplacePlaceholders(ph_input, ph_last)
    /\ ph_pc' = "used"
    /\ UNCHANGED <<ph_given, ph_input, ph_last, ph_cand, ph_steps, now, agentVars,
                   invokeVars, breakerVars, besidePlaceholder>>

(***************************************************************************)
(* The long-term vector store (memory/faiss_backend.py): one FAISSBackend  *)
(* that a caller uses one call after another.  The backend holds an        *)
(* embedding model that answers; an embedding is a point of a line, and    *)
(* the index (IndexFlatL2) orders rows by squared distance.                *)
(***************************************************************************)
\* rows the index may hold
MaxRows == 2
\* records of one add, ids of one delete
MaxBatch == 2
\* the id a caller gives to a record; a record without id gets a new one
RecordIds == {"a"}

\* what uuid4 gives
UuidPool == {"u1", "u2", "u3", "u4", "u5", "u6", "u7", "u8"}

Contents == {"x", "y"}

Vectors == {0, 1}

\* record.embedding is None
NoEmbedding == -1

\* embedding_model.encode
Encode == [text \in Contents |-> IF text = "x" THEN 0 ELSE 1]

Embed(text) == Encode[text]

\* the distance of IndexFlatL2
Distance(u, v) == (u - v) * (u - v)

Records == [id : RecordIds \cup {""}, content : Contents,
            embedding : Vectors \cup {NoEmbedding}]

Batches == SeqsUpTo(Records, MaxBatch) \ { <<>> }

\* the ids a caller may ask to delete: the ones it may give and the ones the
\* backend holds
IdLists(known) == SeqsUpTo(RecordIds \cup known, MaxBatch) \ { <<>> }

\* a dict
EmptyMap == [k \in {} |-> k]

Put(m, k, v) == [x \in DOMAIN m \cup {k} |-> IF x = k THEN v ELSE m[x]]

Del(m, k) == [x \in DOMAIN m \ {k} |-> m[x]]

\* no record
NoRecord == [id |-> "", content |-> ""]

\* the backend during a call: the index rows, the two maps, the table, the
\* record that add stored last, whether the call raised
Backend(rows, index_id_map, id_to_index, table) ==
    [rows |-> rows, index_id_map |-> index_id_map, id_to_index |-> id_to_index,
     table |-> table, stored |-> NoRecord, raised |-> FALSE]

UsedIds(s) ==
    DOMAIN s.id_to_index \cup DOMAIN s.table
        \cup { s.index_id_map[i] : i \in DOMAIN s.index_id_map }

\* a new id
Uuid4(s) == CHOOSE u \in UuidPool : u \notin UsedIds(s)

\* INSERT OR REPLACE: the rows that clash on id (PRIMARY KEY) or on
\* faiss_index (UNIQUE) go, the new row comes
InsertOrReplace(table, id, row) ==
    LET kept == { k \in DOMAIN table :
                    k /= id /\ table[k].faiss_index /= row.faiss_index }
    IN  [k \in kept \cup {id} |-> IF k = id THEN row ELSE table[k]]

\* the body of the loop of add
AddOne(s, record) ==
    LET id == IF record.id = "" THEN Uuid4(s) ELSE record.id
        embedding == IF record.embedding = NoEmbedding
                     THEN Embed(record.content)
                     ELSE record.embedding
        rows == Append(s.rows, embedding)
        faiss_idx == Len(rows) - 1
    IN  [s EXCEPT !.rows = rows,
                  !.index_id_map = Put(s.index_id_map, faiss_idx, id),
                  !.id_to_index = Put(s.id_to_index, id, faiss_idx),
                  !.table = InsertOrReplace(s.table, id,
                                [content |-> record.content, faiss_index |-> faiss_idx]),
                  !.stored = [id |-> id, content |-> record.content]]

RECURSIVE AddEach(_, _)
AddEach(s, records) ==
    IF records = <<>> THEN s
    ELSE AddEach(AddOne(s, Head(records)), Tail(records))

\* add while another connection holds the write lock: the first record gets
\* its row in the index and its entries in the two maps, then its INSERT
\* raises OperationalError (database is locked) and the call is over; the
\* table and the index file are as before
AddLocked(s, records) ==
    LET t == AddOne(s, Head(records))
    IN  [s EXCEPT !.rows = t.rows,
                  !.index_id_map = t.index_id_map,
                  !.id_to_index = t.id_to_index,
                  !.raised = TRUE]

\* mutant: delete raises on an id that has no row position
MutDeleteOne(s, record_id) ==
    IF record_id \in DOMAIN s.id_to_index
    THEN [s EXCEPT !.table = Del(s.table, record_id),
                   !.index_id_map = Del(s.index_id_map, s.id_to_index[record_id]),
                   !.id_to_index = Del(s.id_to_index, record_id)]
    ELSE [s EXCEPT !.raised = TRUE]

\* the body of the loop of delete; del of a missing key raises KeyError
DeleteOne(s, record_id) ==
    LET t == [s EXCEPT !.table = Del(s.table, record_id)]
    IN  IF record_id \in DOMAIN s.id_to_index
        THEN LET faiss_idx == s.id_to_index[record_id]
             IN  IF faiss_idx \in DOMAIN s.index_id_map
                 THEN [t EXCEPT !.index_id_map = Del(s.index_id_map, faiss_idx),
                                !.id_to_index = Del(s.id_to_index, record_id)]
                 ELSE [t EXCEPT !.raised = TRUE]
        ELSE t

RECURSIVE DeleteEach(_, _)
DeleteEach(s, ids) ==
    IF ids = <<>> \/ s.raised THEN s
    ELSE DeleteEach(DeleteOne(s, Head(ids)), Tail(ids))

\* what index.search may give for k rows: k row positions, nearest first,
\* rows of equal distance in any order
NearestLists(rows, q, k) ==
    LET pos == 0 .. (Len(rows) - 1)
        d(i) == Distance(rows[i + 1], q)
    IN  { h \in [1..k -> pos] :
            /\ \A i, j \in 1..k : i < j => (h[i] /= h[j] /\ d(h[i]) <= d(h[j]))
            /\ \A i \in pos : (\A j \in 1..k : h[j] /= i) => d(h[k]) <= d(i) }

\* mutant: a row whose id has no table row is returned all the same
RECURSIVE MutResolveHits(_, _, _)
MutResolveHits(index_id_map, table, hits) ==
    IF hits = <<>> THEN <<>>
    ELSE LET idx == Head(hits)
             rest == MutResolveHits(index_id_map, table, Tail(hits))
         IN  IF idx \notin DOMAIN index_id_map THEN rest
             ELSE LET record_id == index_id_map[idx]
                  IN  <<[id |-> record_id,
                         content |-> IF record_id \in DOMAIN table
                                     THEN table[record_id].content ELSE ""]>> \o rest

\* the rows of a search resolved to records; a row without id or without
\* table row is skipped
RECURSIVE ResolveHits(_, _, _)
ResolveHits(index_id_map, table, hits) ==
    IF hits = <<>> THEN <<>>
    ELSE LET idx == Head(hits)
             rest == ResolveHits(index_id_map, table, Tail(hits))
         IN  IF idx \notin DOMAIN index_id_map THEN rest
             ELSE LET record_id == index_id_map[idx]
                  IN  IF record_id \notin DOMAIN table THEN rest
                      ELSE <<[id |-> record_id, content |-> table[record_id].content]>>
                               \o rest

\* count()
Count(table) == Cardinality(DOMAIN table)

\* a call as st_op keeps it: the operation, the last record of an add as it
\* was stored, the ids of a delete, the query and top_k of a search
StoreOp(op, last, ids, text, top_k) ==
    [op |-> op, last |-> last, ids |-> ids, query |-> text, top_k |-> top_k]

Range(q) == { q[i] : i \in DOMAIN q }

\* index.faiss as write_index leaves it
SavedFile(rows) == [exists |-> TRUE, rows |-> rows]

\* the backend after construction with no index file and an empty database
StoreIdle ==
    /\ st_rows = <<>>
    /\ st_index_id_map = EmptyMap
    /\ st_id_to_index = EmptyMap
    /\ st_table = EmptyMap
    /\ st_op = StoreOp("init", NoRecord, {}, "", 0)
    /\ st_repeat = FALSE
    /\ st_result = <<>>
    /\ st_raised = FALSE

StoreNow == Backend(st_rows, st_index_id_map, st_id_to_index, st_table)

StoreCall(op) ==
    /\ st_op' = op
    /\ st_repeat' = (op = st_op)
    /\ UNCHANGED <<now, agentVars, invokeVars, breakerVars, besideStore>>

\* add(records), with _save_index at its end: write_index writes the rows
\* of the index to index.faiss (saved), or fails, as it does when the
\* directory index_path is not there, and is logged only.  An add that
\* raises does not come to the save
Add(records, saved) ==
    /\ Len(st_rows) + Len(records) <= MaxRows
    /\ LET s == IF fl_locked THEN AddLocked(StoreNow, records)
                ELSE AddEach(StoreNow, records)
       IN  /\ st_rows' = s.rows
           /\ st_index_id_map' = s.index_id_map
           /\ st_id_to_index' = s.id_to_index
           /\ st_table' = s.table
           /\ st_raised' = s.raised
           /\ StoreCall(StoreOp("add", s.stored, {}, "", 0))
           /\ fl_file' = IF saved /\ ~s.raised THEN SavedFile(s.rows) ELSE fl_file
           /\ fl_phase' = IF fl_phase = "reloaded" \/ s.raised THEN fl_phase
                          ELSE IF saved THEN "clean" ELSE "failed"
    /\ st_result' = <<>>
    /\ UNCHANGED fl_locked

\* search(query, top_k)
Search(text, top_k) ==
    /\ IF st_rows = <<>>
       THEN st_result' = <<>>
       ELSE LET k == IF top_k < Len(st_rows) THEN top_k ELSE Len(st_rows)
            IN  \E hits \in NearestLists(st_rows, Embed(text), k) :
                    st_result' = ResolveHits(st_index_id_map, st_table, hits)
    /\ st_raised' = FALSE
    /\ StoreCall(StoreOp("search", NoRecord, {}, text, top_k))
    /\ UNCHANGED <<st_rows, st_index_id_map, st_id_to_index, st_table, fileVars>>

\* delete(ids).  A call that raises KeyError never commits its DELETEs and
\* never closes its connection, which keeps the write lock of the database
\* for as long as it is there.  Under such a lock the first DELETE raises
\* OperationalError (database is locked) and nothing is changed
Delete(ids) ==
    /\ LET s == IF fl_locked THEN [StoreNow EXCEPT !.raised = TRUE]
                ELSE DeleteEach(StoreNow, ids)
       IN  /\ st_index_id_map' = s.index_id_map
           /\ st_id_to_index' = s.id_to_index
           /\ st_table' = IF s.raised THEN st_table ELSE s.table
           /\ st_raised' = s.raised
           /\ fl_locked' = (fl_locked \/ s.raised)
    /\ st_result' = <<>>
    /\ StoreCall(StoreOp("delete", NoRecord, Range(ids), "", 0))
    /\ UNCHANGED <<st_rows, fl_file, fl_phase>>

\* clear(); under the write lock of another connection its DELETE raises
\* OperationalError (database is locked) and nothing is changed.  The index
\* file stays
Clear ==
    /\ IF fl_locked
       THEN /\ st_raised' = TRUE
            /\ UNCHANGED <<st_rows, st_index_id_map, st_id_to_index, st_table>>
       ELSE /\ st_rows' = <<>>
            /\ st_index_id_map' = EmptyMap
            /\ st_id_to_index' = EmptyMap
            /\ st_table' = EmptyMap
            /\ st_raised' = FALSE
    /\ st_result' = <<>>
    /\ StoreCall(StoreOp("clear", NoRecord, {}, "", 0))
    /\ UNCHANGED fileVars

\* the connection that a delete left open is closed (the exception that
\* held its frame is dropped, the garbage collector runs): its DELETEs are
\* rolled back and the lock is gone
Collect ==
    /\ fl_locked
    /\ fl_locked' = FALSE
    /\ UNCHANGED <<fl_file, fl_phase, storeVars, now, agentVars, invokeVars,
                   breakerVars, besideStore>>

(***************************************************************************)
(* The memory facade (memory/facade.py) over its three tiers               *)
(* (memory/tiers.py), each on an InMemoryBackend.  A tier gives every      *)
(* record a new uuid4 id, so a backend is the list of the contents it      *)
(* holds.                                                                  *)
(***************************************************************************)
\* records a tier may hold
MaxTierRecords == 2

Tiers == {"short_term", "long_term", "scratchpad"}

NoteKeys == {"plan"}

\* the methods of the three tier classes that the facade calls
TierMethods ==
    [short_term |-> {"add", "search", "clear", "count"},
     long_term |-> {"add", "search", "delete", "clear", "count"},
     scratchpad |-> {"add_note", "get_note", "add_memory", "search_memory", "clear",
                     "to_dict"}]

\* InMemoryBackend.count
BackendCount(records) == Len(records)

\* MemoryFacade.stats: the three count() calls in the order of the dict
\* display; a call of a method that the tier class lacks raises
\* AttributeError
Stats(short, long, scratch, notes) ==
    IF \A t \in Tiers : "count" \in TierMethods[t]
    THEN [raised |-> FALSE, short_term |-> BackendCount(short),
          long_term |-> BackendCount(long), scratchpad |-> BackendCount(scratch)]
    ELSE [raised |-> TRUE, short_term |-> 0, long_term |-> 0, scratchpad |-> 0]

NoStats == [raised |-> FALSE, short_term |-> 0, long_term |-> 0, scratchpad |-> 0]

FacadeOp(op, tier) == [op |-> op, tier |-> tier]

\* the facade of a new MemoryManager
FacadeIdle ==
    /\ fa_short = <<>>
    /\ fa_long = <<>>
    /\ fa_scratch = <<>>
    /\ fa_notes = {}
    /\ fa_op = FacadeOp("init", "")
    /\ fa_stats = NoStats

FacadeCall(op) ==
    /\ fa_op' = op
    /\ UNCHANGED <<now, agentVars, invokeVars, breakerVars, besideFacade>>

\* facade.add(content, tier): tier.add / scratchpad.add_memory, then
\* backend.add([record]) with a new id
FacadeAdd(content, tier) ==
    /\ tier = "short_term" => Len(fa_short) < MaxTierRecords
    /\ tier = "long_term" => Len(fa_long) < MaxTierRecords
    /\ tier = "scratchpad" => Len(fa_scratch) < MaxTierRecords
    /\ fa_short' = IF tier = "short_term" THEN Append(fa_short, content) ELSE fa_short
    /\ fa_long' = IF tier = "long_term" THEN Append(fa_long, content) ELSE fa_long
    /\ fa_scratch' = IF tier = "scratchpad" THEN Append(fa_scratch, content)
                     ELSE fa_scratch
    /\ FacadeCall(FacadeOp("add", tier))
    /\ UNCHANGED <<fa_notes, fa_stats>>

\* scratchpad.add_note(key, value)
AddNote(key) ==
    /\ fa_notes' = fa_notes \cup {key}
    /\ FacadeCall(FacadeOp("add_note", "scratchpad"))
    /\ UNCHANGED <<fa_short, fa_long, fa_scratch, fa_stats>>

\* facade.clear_tier(tier); Scratchpad.clear clears the notes too
ClearTier(tier) ==
    /\ fa_short' = IF tier = "short_term" THEN <<>> ELSE fa_short
    /\ fa_long' = IF tier = "long_term" THEN <<>> ELSE fa_long
    /\ fa_scratch' = IF tier = "scratchpad" THEN <<>> ELSE fa_scratch
    /\ fa_notes' = IF tier = "scratchpad" THEN {} ELSE fa_notes
    /\ FacadeCall(FacadeOp("clear_tier", tier))
    /\ UNCHANGED fa_stats

\* InMemoryBackend.delete(ids) on the records at the given places: each id
\* that the backend holds is removed, an id it does not hold (a place past
\* the end) is passed over, and the other records keep their order
BackendDelete(records, places) ==
    LET kept[i \in 0..Len(records)] ==
            IF i = 0 THEN <<>>
            ELSE IF i \in places THEN kept[i - 1]
                 ELSE Append(kept[i - 1], records[i])
    IN kept[Len(records)]

\* facade.long_term.delete(ids): LongTermMemory.delete hands the ids to its
\* backend
LongTermDelete(places) ==
    /\ fa_long' = BackendDelete(fa_long, places)
    /\ FacadeCall(FacadeOp("delete", "long_term"))
    /\ UNCHANGED <<fa_short, fa_scratch, fa_notes, fa_stats>>

\* facade.stats()
CallStats ==
    /\ fa_stats' = Stats(fa_short, fa_long, fa_scratch, fa_notes)
    /\ FacadeCall(FacadeOp("stats", ""))
    /\ UNCHANGED <<fa_short, fa_long, fa_scratch, fa_notes>>

(***************************************************************************)
(* The background loop (core/continuous_learning.py): one                  *)
(* ContinuousLearningRunner on an event loop.  start(), stop() and         *)
(* trigger_once() are called from outside at any time; a tick runs on a    *)
(* worker thread (asyncio.to_thread) and ends by returning or by raising.  *)
(* A step of the task of _run_loop goes from one await to the next.  Time  *)
(* passes in units; interval_seconds is Interval.                          *)
(***************************************************************************)
\* interval_seconds
Interval == 2
\* ticks the loop may begin
MaxRuns == 2
\* calls of trigger_once
MaxTriggers == 1

\* how a tick ends: it returns, raises an Exception (raised), raises
\* asyncio.CancelledError itself (raised_cancelled) or raises another
\* BaseException that is no Exception (raised_base)
TickOutcomes == {"returned", "raised", "raised_base", "raised_cancelled"}

\* self._stats after __init__; the two times are kept as "is set"
NewStats ==
    [total_runs |-> 0, successful_runs |-> 0, failed_runs |-> 0,
     last_started_at |-> FALSE, last_completed_at |-> FALSE, last_error |-> "none"]

\* _invoke_tick up to its await
BeginTick(stats) == [stats EXCEPT !.last_started_at = TRUE]

\* mutant: a tick that raised is counted as any other
MutEndTick(stats, how) ==
    [stats EXCEPT !.successful_runs = IF how \in {"returned", "raised"} THEN @ + 1 ELSE @,
                  !.last_error = IF how \in {"returned", "raised"} THEN "none" ELSE @,
                  !.total_runs = @ + 1,
                  !.last_completed_at = TRUE]

\* _invoke_tick after its await: the await gave the tick's return, the tick's
\* Exception, or a BaseException that except Exception lets through (the
\* CancelledError of a cancellation, or what the tick raised); the finally
\* clause counts the run in each case
EndTick(stats, how) ==
    LET counted ==
            CASE how = "returned" ->
                    [stats EXCEPT !.successful_runs = @ + 1, !.last_error = "none"]
              [] how = "raised" ->
                    [stats EXCEPT !.failed_runs = @ + 1, !.last_error = "error"]
              [] OTHER -> stats
    IN  [counted EXCEPT !.total_runs = @ + 1, !.last_completed_at = TRUE]

\* mutant: the Exception of a tick leaves _invoke_tick
MutEscapes(how) == how /= "returned"

\* what leaves _invoke_tick: except Exception catches the Exception of a
\* tick and lets through CancelledError and every other BaseException that is
\* no Exception
Escapes(how) == how \in {"cancelled", "raised_base", "raised_cancelled"}

\* mutant: the wait_for of the loop times out at once
MutTimerDue(wait) == TRUE

\* the wait_for of the loop has run for its whole timeout
TimerDue(wait) == wait = 0

\* is_running(): there is a task and it is not done
IsRunning == rn_task \notin {"none", "done", "failed"}

trigVars == <<tr_pc, tr_thread, tr_started, tr_calls, tr_outcome>>

\* the runner after __init__, run_immediately at its default
RunnerIdle ==
    /\ rn_immediate = TRUE
    /\ rn_task = "none"
    /\ rn_event = "none"
    /\ rn_cancel = FALSE
    /\ rn_first = FALSE
    /\ rn_wait = 0
    /\ rn_since = 0
    /\ rn_tick_after = 0
    /\ rn_thread = "none"
    /\ rn_orphans = 0
    /\ rn_started = 0
    /\ rn_stats = NewStats
    /\ rn_stopped = FALSE
    /\ sp_pc = "idle"
    /\ sp_outcome = "none"
    /\ tr_pc = "idle"
    /\ tr_thread = "none"
    /\ tr_started = 0
    /\ tr_calls = 0
    /\ tr_outcome = "none"

\* the runner after __init__
RunnerInit ==
    /\ rn_immediate \in BOOLEAN
    /\ rn_task = "none"
    /\ rn_event = "none"
    /\ rn_cancel = FALSE
    /\ rn_first = FALSE
    /\ rn_wait = 0
    /\ rn_since = 0
    /\ rn_tick_after = 0
    /\ rn_thread = "none"
    /\ rn_orphans = 0
    /\ rn_started = 0
    /\ rn_stats = NewStats
    /\ rn_stopped = FALSE
    /\ sp_pc = "idle"
    /\ sp_outcome = "none"
    /\ tr_pc = "idle"
    /\ tr_thread = "none"
    /\ tr_started = 0
    /\ tr_calls = 0
    /\ tr_outcome = "none"

RunnerFrame == UNCHANGED <<now, agentVars, invokeVars, breakerVars, besideRunner>>

\* start(): nothing if a task is there, else a new event and a new task
Start ==
    /\ rn_task = "none"
    /\ rn_event' = "clear"
    /\ rn_task' = "created"
    /\ rn_cancel' = FALSE
    /\ rn_first' = TRUE
    /\ rn_since' = 0
    /\ rn_stopped' = FALSE
    /\ UNCHANGED <<rn_immediate, rn_wait, rn_tick_after, rn_thread, rn_orphans,
                   rn_started, rn_stats, sp_pc, sp_outcome, trigVars>>
    /\ RunnerFrame

\* the task begins a tick: _invoke_tick up to await asyncio.to_thread
LoopTick ==
    /\ rn_started < MaxRuns
    /\ rn_task' = "in_tick"
    /\ rn_thread' = "running"
    /\ rn_started' = rn_started + 1
    /\ rn_tick_after' = rn_since
    /\ rn_stats' = BeginTick(rn_stats)

\* the first step of _run_loop: the tick of run_immediately, or the first
\* wait_for
RunLoopBegin ==
    /\ rn_task = "created"
    /\ ~rn_cancel
    /\ IF rn_immediate
       THEN /\ LoopTick
            /\ UNCHANGED <<rn_first, rn_wait>>
       ELSE /\ rn_task' = "waiting"
            /\ rn_wait' = Interval
            /\ rn_first' = FALSE
            /\ UNCHANGED <<rn_thread, rn_started, rn_tick_after, rn_stats>>
    /\ UNCHANGED <<rn_immediate, rn_event, rn_cancel, rn_since, rn_orphans, rn_stopped,
                   sp_pc, sp_outcome, trigVars>>
    /\ RunnerFrame

\* wait_for raises TimeoutError: the next tick begins
RunLoopTimeout ==
    /\ rn_task = "waiting"
    /\ ~rn_cancel
    /\ TimerDue(rn_wait)
    /\ LoopTick
    /\ UNCHANGED <<rn_immediate, rn_event, rn_cancel, rn_first, rn_wait, rn_since,
                   rn_orphans, rn_stopped, sp_pc, sp_outcome, trigVars>>
    /\ RunnerFrame

\* the tick of the loop ends on its thread
TickEnds(how) ==
    /\ rn_thread = "running"
    /\ rn_thread' = how
    /\ UNCHANGED <<rn_immediate, rn_task, rn_event, rn_cancel, rn_first, rn_wait,
                   rn_since, rn_tick_after, rn_orphans, rn_started, rn_stats,
                   rn_stopped, sp_pc, sp_outcome, trigVars>>
    /\ RunnerFrame

\* the task goes on after the tick: the rest of _invoke_tick, then the test
\* of the while and the next wait_for.  What leaves _invoke_tick leaves
\* _run_loop as well and ends the task: a CancelledError of the tick leaves
\* it cancelled (done), another BaseException leaves it with that exception
\* (failed); nothing sets the stop event or clears self._task
RunLoopResume ==
    /\ rn_task = "in_tick"
    /\ rn_thread \in TickOutcomes
    /\ ~rn_cancel
    /\ rn_stats' = EndTick(rn_stats, rn_thread)
    /\ rn_thread' = "none"
    /\ rn_first' = FALSE
    /\ rn_since' = 0
    /\ rn_tick_after' = 0
    /\ IF Escapes(rn_thread) \/ rn_event = "set"
       THEN /\ rn_task' = IF rn_thread = "raised_base" THEN "failed" ELSE "done"
            /\ UNCHANGED rn_wait
       ELSE rn_task' = "waiting" /\ rn_wait' = Interval
    /\ UNCHANGED <<rn_immediate, rn_event, rn_cancel, rn_orphans, rn_started,
                   rn_stopped, sp_pc, sp_outcome, trigVars>>
    /\ RunnerFrame

\* the cancellation reaches the task at its await; a tick in flight stays on
\* its thread, and what it gives is dropped
RunLoopCancelled ==
    /\ rn_cancel
    /\ rn_task \in {"created", "waiting", "in_tick"}
    /\ rn_task' = "done"
    /\ rn_cancel' = FALSE
    /\ rn_thread' = "none"
    /\ rn_orphans' = IF rn_thread = "running" THEN rn_orphans + 1 ELSE rn_orphans
    /\ rn_stats' = IF rn_task = "in_tick" THEN EndTick(rn_stats, "cancelled")
                   ELSE rn_stats
    /\ rn_tick_after' = 0
    /\ UNCHANGED <<rn_immediate, rn_event, rn_first, rn_wait, rn_since, rn_started,
                   rn_stopped, sp_pc, sp_outcome, trigVars>>
    /\ RunnerFrame

\* a tick that lost its awaiter ends on its thread
OrphanEnds ==
    /\ rn_orphans > 0
    /\ rn_orphans' = rn_orphans - 1
    /\ UNCHANGED <<rn_immediate, rn_task, rn_event, rn_cancel, rn_first, rn_wait,
                   rn_since, rn_tick_after, rn_thread, rn_started, rn_stats,
                   rn_stopped, sp_pc, sp_outcome, trigVars>>
    /\ RunnerFrame

\* stop() up to await self._task; without task it returns at once.
\* cancel() does nothing to a task that is over, and awaiting such a task
\* does not suspend: stop() then runs to its end in this step, as StopReturn
\* has it
StopCall ==
    /\ sp_pc = "idle"
    /\ IF rn_task = "none" \/ rn_event = "none"
       THEN /\ rn_stopped' = TRUE
            /\ sp_outcome' = "returned"
            /\ UNCHANGED <<rn_task, rn_event, rn_cancel, sp_pc>>
       ELSE IF IsRunning
            THEN /\ rn_event' = "set"
                 /\ rn_cancel' = TRUE
                 /\ sp_pc' = "awaiting"
                 /\ UNCHANGED <<rn_task, rn_stopped, sp_outcome>>
            ELSE /\ rn_task' = "none"
                 /\ rn_event' = "none"
                 /\ rn_cancel' = FALSE
                 /\ sp_outcome' = (IF rn_task = "failed" THEN "raised" ELSE "returned")
                 /\ rn_stopped' = (rn_task = "done")
                 /\ UNCHANGED sp_pc
    /\ UNCHANGED <<rn_immediate, rn_first, rn_wait, rn_since, rn_tick_after,
                   rn_thread, rn_orphans, rn_started, rn_stats, trigVars>>
    /\ RunnerFrame

\* stop() after its await: the task is over.  await self._task raises what
\* ended the task; stop() takes CancelledError and lets every other exception
\* through, after its finally clause has cleared self._task and the event
StopReturn ==
    /\ sp_pc = "awaiting"
    /\ rn_task \in {"done", "failed"}
    /\ rn_task' = "none"
    /\ rn_event' = "none"
    /\ sp_pc' = "idle"
    /\ sp_outcome' = IF rn_task = "failed" THEN "raised" ELSE "returned"
    /\ rn_stopped' = (rn_task = "done")
    /\ UNCHANGED <<rn_immediate, rn_cancel, rn_first, rn_wait, rn_since, rn_tick_after,
                   rn_thread, rn_orphans, rn_started, rn_stats, trigVars>>
    /\ RunnerFrame

\* a trigger_once() that would restart the wait of the loop
MutTriggerOnce ==
    /\ tr_pc = "idle"
    /\ tr_started < MaxTriggers
    /\ tr_pc' = "in_tick"
    /\ tr_thread' = "running"
    /\ tr_started' = tr_started + 1
    /\ rn_stats' = BeginTick(rn_stats)
    /\ rn_wait' = Interval
    /\ UNCHANGED <<rn_immediate, rn_since, rn_orphans, rn_task, rn_event, rn_cancel,
                   rn_first, rn_tick_after, rn_thread, rn_started, rn_stopped, sp_pc, sp_outcome,
                   tr_calls, tr_outcome>>
    /\ RunnerFrame

\* trigger_once(): _invoke_tick up to its await
TriggerOnce ==
    /\ tr_pc = "idle"
    /\ tr_started < MaxTriggers
    /\ tr_pc' = "in_tick"
    /\ tr_thread' = "running"
    /\ tr_started' = tr_started + 1
    /\ rn_stats' = BeginTick(rn_stats)
    /\ UNCHANGED <<rn_immediate, rn_since, rn_orphans, loopVars, sp_pc, sp_outcome, tr_calls,
                   tr_outcome>>
    /\ RunnerFrame

\* the tick of trigger_once ends on its thread
TriggerTickEnds(how) ==
    /\ tr_thread = "running"
    /\ tr_thread' = how
    /\ UNCHANGED <<rn_immediate, rn_since, rn_orphans, rn_stats, loopVars, sp_pc, sp_outcome, tr_pc,
                   tr_started, tr_calls, tr_outcome>>
    /\ RunnerFrame

\* trigger_once() after the tick: the rest of _invoke_tick, then the return
TriggerReturn ==
    /\ tr_pc = "in_tick"
    /\ tr_thread \in TickOutcomes
    /\ rn_stats' = EndTick(rn_stats, tr_thread)
    /\ tr_thread' = "none"
    /\ tr_pc' = "idle"
    /\ tr_calls' = tr_calls + 1
    /\ tr_outcome' = IF Escapes(tr_thread) THEN "raised" ELSE "returned"
    /\ UNCHANGED <<rn_immediate, rn_since, rn_orphans, loopVars, sp_pc, sp_outcome, tr_started>>
    /\ RunnerFrame

\* a unit of time passes while the task is at its first step or in wait_for
Elapse ==
    /\ rn_task \in {"created", "waiting"}
    /\ rn_wait' = IF rn_task = "waiting" /\ rn_wait > 0 THEN rn_wait - 1 ELSE rn_wait
    /\ rn_since' = IF rn_since < Interval THEN rn_since + 1 ELSE rn_since
    /\ UNCHANGED <<rn_immediate, rn_task, rn_event, rn_cancel, rn_first, rn_tick_after,
                   rn_thread, rn_orphans, rn_started, rn_stats, rn_stopped, sp_pc, sp_outcome,
                   trigVars>>
    /\ RunnerFrame

(***************************************************************************)
(* The Redis-backed breaker (resilience.py, create_registry).  Its state   *)
(* is three keys of the store: failures, opened_at and half_open_trials.   *)
(* A key is missing or holds a value; the breaker objects hold none of it. *)
(***************************************************************************)
\* most failures reported in a row
MaxFailures == 3

\* client.get of a key that does not exist
NoKey == -1

\* the breaker objects that RedisCircuitBreakerRegistry.get_or_create gave
\* for the one key
RedisObjects == {"r1", "r2"}

\* the store before any operation on the key
RedisNew == [failures |-> NoKey, opened_at |-> NoKey, half_open_trials |-> NoKey]

\* RedisCircuitBreaker.is_open returns True: the opened_at it read is
\* younger than the recovery timeout at the time t at which it reads the
\* clock.  opened_at holds str(self._now()), which is never empty and which
\* float() reads back as the time it was made from
RedisIsOpen(opened, t) == t - opened < RecoveryTimeout

\* mutant: one trial more than the limit passes
MutRedisTrialLimitReached(r) ==
    r.half_open_trials /= NoKey /\ r.half_open_trials > HalfOpenTrialRequests

\* before_call raises CircuitOpen for the trial limit: half_open_trials
\* exists and has reached half_open_trial_requests
RedisTrialLimitReached(r) ==
    r.half_open_trials /= NoKey /\ r.half_open_trials >= HalfOpenTrialRequests

\* on_success: the pipeline deletes the three keys
RedisOnSuccess(r) == RedisNew

\* what incr leaves in a key: a missing key counts as 0
Incr(v) == IF v = NoKey THEN 1 ELSE v + 1

\* no operation yet
NoOp == [op |-> "none", obj |-> "none", memory |-> "none", redis |-> "none"]

\* no call in progress
NoCall == [op |-> "none", at |-> "idle", memory |-> "none", seen |-> NoKey]

RedisIdle ==
    /\ rd_mem = CbNew
    /\ rd_keys = RedisNew
    /\ rd_last = NoOp
    /\ rd_prev = NoOp
    /\ rd_call = [o \in RedisObjects |-> NoCall]
    /\ rd_mixed = FALSE

RedisFrame == UNCHANGED <<agentVars, invokeVars, breakerVars, besideRedis>>

\* how before_call ended
Verdict(open) == IF open THEN "rejected" ELSE "admitted"

\* what is_open returned
Answer(open) == IF open THEN "open" ELSE "not_open"

\* some call is in progress
InCall == \E o \in RedisObjects : rd_call[o].at /= "idle"

\* the caller of object o begins a call: the in-memory breaker gave `memory`,
\* and the call comes to the round trip `at` of the Redis-backed object
Begin(o, op, at, memory) ==
    /\ rd_call[o].at = "idle"
    /\ rd_call' = [rd_call EXCEPT ![o] = [op |-> op, at |-> at, memory |-> memory,
                                          seen |-> NoKey]]
    /\ rd_mixed' = (rd_mixed \/ InCall)
    /\ rd_last' = (IF rd_mixed' THEN NoOp ELSE rd_last)
    /\ rd_prev' = (IF rd_mixed' THEN NoOp ELSE rd_prev)
    /\ UNCHANGED <<now, rd_keys>>
    /\ RedisFrame

\* the call through o comes to its next step, holding the value v
Hold(o, at, v) ==
    /\ rd_call' = [rd_call EXCEPT ![o].at = at, ![o].seen = v]
    /\ UNCHANGED <<now, rd_last, rd_prev, rd_mixed>>
    /\ RedisFrame

\* the call through o comes to its next round trip
GoOn(o, at) ==
    /\ rd_call' = [rd_call EXCEPT ![o].at = at, ![o].seen = NoKey]
    /\ UNCHANGED <<now, rd_last, rd_prev, rd_mixed>>
    /\ RedisFrame

\* the call through o is over; the Redis-backed object gave `redis`
Return(o, redis) ==
    /\ rd_call' = [rd_call EXCEPT ![o] = NoCall]
    /\ rd_prev' = (IF rd_mixed THEN NoOp ELSE rd_last)
    /\ rd_last' = (IF rd_mixed THEN NoOp
                   ELSE [op |-> rd_call[o].op, obj |-> o,
                         memory |-> rd_call[o].memory, redis |-> redis])
    /\ UNCHANGED <<now, rd_mixed>>
    /\ RedisFrame

\* is_open called by itself: the one locked section of CircuitBreaker.is_open,
\* which past the recovery timeout moves the breaker to half-open; then the
\* Redis-backed object o
BothIsOpen(o) ==
    /\ rd_mem' = AfterIsOpen(rd_mem, now)
    /\ Begin(o, "is_open", "get_opened_at", Answer(IsOpen(rd_mem, now)))

\* before_call: CircuitBreaker.before_call calls is_open, which takes and
\* releases the lock; an open breaker raises CircuitOpen, else the call comes
\* to the second locked section
BothBeforeCall(o) ==
    /\ rd_mem' = AfterIsOpen(rd_mem, now)
    /\ IF IsOpen(rd_mem, now)
       THEN Begin(o, "before_call", "get_opened_at", Verdict(TRUE))
       ELSE Begin(o, "before_call", "trial_section", "none")

\* the second locked section of CircuitBreaker.before_call: the trial limit
\* raises CircuitOpen, else a half-open breaker counts the trial; then the
\* Redis-backed object o
MemTrialSection(o) ==
    /\ rd_call[o].at = "trial_section"
    /\ rd_mem' = IF TrialLimitReached(rd_mem) THEN rd_mem ELSE AfterTrial(rd_mem)
    /\ rd_call' = [rd_call EXCEPT ![o].at = "get_opened_at",
                                  ![o].memory = Verdict(TrialLimitReached(rd_mem))]
    /\ UNCHANGED <<now, rd_keys, rd_last, rd_prev, rd_mixed>>
    /\ RedisFrame

\* RedisCircuitBreaker.is_open, first round trip: client.get of opened_at
\* (line 163); without the key is_open returns False (165), else the value
\* read is kept in the local `opened`
RedisGetOpenedAt(o) ==
    /\ rd_call[o].at = "get_opened_at"
    /\ UNCHANGED <<rd_mem, rd_keys>>
    /\ IF rd_keys.opened_at = NoKey
       THEN IF rd_call[o].op = "is_open"
            THEN Return(o, Answer(FALSE))
            ELSE GoOn(o, "get_trials")
       ELSE Hold(o, "elapsed", rd_keys.opened_at)

\* RedisCircuitBreaker.is_open after the get has returned: self._now() is
\* read (line 170) and the recovery timeout is tested on the opened_at read
\* before
RedisElapsed(o) ==
    /\ rd_call[o].at = "elapsed"
    /\ UNCHANGED <<rd_mem, rd_keys>>
    /\ IF RedisIsOpen(rd_call[o].seen, now)
       THEN Return(o, IF rd_call[o].op = "is_open"
                      THEN Answer(TRUE) ELSE Verdict(TRUE))
       ELSE GoOn(o, "pipeline")

\* RedisCircuitBreaker.is_open, second round trip: past the recovery timeout
\* the pipeline deletes opened_at and sets half_open_trials to 0 (lines
\* 173-176), whatever the keys hold by now
RedisHalfOpenPipeline(o) ==
    /\ rd_call[o].at = "pipeline"
    /\ rd_keys' = [rd_keys EXCEPT !.opened_at = NoKey, !.half_open_trials = 0]
    /\ UNCHANGED rd_mem
    /\ IF rd_call[o].op = "is_open"
       THEN Return(o, Answer(FALSE))
       ELSE GoOn(o, "get_trials")

\* RedisCircuitBreaker.before_call after is_open: client.get of
\* half_open_trials (line 210) and the test of the trial limit
RedisGetTrials(o) ==
    /\ rd_call[o].at = "get_trials"
    /\ UNCHANGED <<rd_mem, rd_keys>>
    /\ IF rd_keys.half_open_trials = NoKey
       THEN Return(o, Verdict(FALSE))
       ELSE IF RedisTrialLimitReached(rd_keys)
            THEN Return(o, Verdict(TRUE))
            ELSE GoOn(o, "incr_trials")

\* RedisCircuitBreaker.before_call, last round trip: client.incr of
\* half_open_trials (line 221)
RedisIncrTrials(o) ==
    /\ rd_call[o].at = "incr_trials"
    /\ rd_keys' = [rd_keys EXCEPT !.half_open_trials = Incr(@)]
    /\ UNCHANGED rd_mem
    /\ Return(o, Verdict(FALSE))

\* on_success: the locked section of CircuitBreaker.on_success, then the
\* Redis-backed object o
BothOnSuccess(o) ==
    /\ rd_mem' = OnSuccess(rd_mem)
    /\ Begin(o, "on_success", "reset", "none")

\* RedisCircuitBreaker.on_success: the one pipeline (lines 226-231)
RedisReset(o) ==
    /\ rd_call[o].at = "reset"
    /\ rd_keys' = RedisOnSuccess(rd_keys)
    /\ UNCHANGED rd_mem
    /\ Return(o, "none")

\* on_failure: the locked section of CircuitBreaker.on_failure, then the
\* Redis-backed object o
BothOnFailure(o) ==
    /\ rd_mem.failures < MaxFailures
    /\ rd_mem' = OnFailure(rd_mem, now)
    /\ Begin(o, "on_failure", "incr_failures", "none")

\* RedisCircuitBreaker.on_failure, first round trip: client.incr of failures
\* (line 238) and the test of the threshold on what it returned
RedisIncrFailures(o) ==
    /\ rd_call[o].at = "incr_failures"
    /\ rd_keys' = [rd_keys EXCEPT !.failures = Incr(@)]
    /\ UNCHANGED rd_mem
    /\ IF Incr(rd_keys.failures) >= FailureThreshold
       THEN GoOn(o, "stamp")
       ELSE Return(o, "none")

\* RedisCircuitBreaker.on_failure at the threshold: str(self._now()), the
\* argument of the set of line 243, is made before the set is sent
RedisStamp(o) ==
    /\ rd_call[o].at = "stamp"
    /\ UNCHANGED <<rd_mem, rd_keys>>
    /\ Hold(o, "set_opened_at", now)

\* RedisCircuitBreaker.on_failure, second round trip: client.set of opened_at
\* to the time that was read before (line 243)
RedisSetOpenedAt(o) ==
    /\ rd_call[o].at = "set_opened_at"
    /\ rd_keys' = [rd_keys EXCEPT !.opened_at = rd_call[o].seen]
    /\ UNCHANGED rd_mem
    /\ GoOn(o, "set_trials")

\* RedisCircuitBreaker.on_failure, third round trip: client.set of
\* half_open_trials to 0 (line 244)
RedisSetTrials(o) ==
    /\ rd_call[o].at = "set_trials"
    /\ rd_keys' = [rd_keys EXCEPT !.half_open_trials = 0]
    /\ UNCHANGED rd_mem
    /\ Return(o, "none")

\* a second passes, between two calls or in the middle of one
RedisTick ==
    /\ now < MaxTime
    /\ now' = now + 1
    /\ rd_mixed' = (rd_mixed \/ InCall)
    /\ rd_last' = (IF rd_mixed' THEN NoOp ELSE rd_last)
    /\ rd_prev' = (IF rd_mixed' THEN NoOp ELSE rd_prev)
    /\ UNCHANGED <<rd_mem, rd_keys, rd_call>>
    /\ RedisFrame

(***************************************************************************)
(* The vector store across processes (memory/faiss_backend.py): add saves  *)
(* the index to a file, a process may die inside a call, and the next      *)
(* process loads what the database and the index file hold.                *)
(***************************************************************************)
\* index.faiss does not exist, or read_index cannot read it
NoFile == [exists |-> FALSE, rows |-> <<>>]

\* where a process may die inside add or delete: before conn.commit(), when
\* the database keeps nothing of the call, or after it
CrashPoints == {"before_commit", "after_commit"}

\* the records that come without an embedding of their own
TextRecords == { r \in Records : r.embedding = NoEmbedding }

FileIdle ==
    /\ fl_file = NoFile
    /\ fl_phase = "clean"
    /\ fl_locked = FALSE

\* __init__ over a database and an index file: _load_index reads the rows
\* of the file and _rebuild_mappings fills the two maps from the table; with
\* no readable file the index stays None and the maps stay empty
Loaded(table, file) ==
    IF ~file.exists
    THEN Backend(<<>>, EmptyMap, EmptyMap, table)
    ELSE Backend(file.rows,
                 [r \in { table[k].faiss_index : k \in DOMAIN table } |->
                    CHOOSE k \in DOMAIN table : table[k].faiss_index = r],
                 [k \in DOMAIN table |-> table[k].faiss_index],
                 table)

\* a new process opens the backend over the table and the file given; the
\* connections of the process before it are gone
Reopen(table, file) ==
    LET s == Loaded(table, file)
    IN  /\ st_rows' = s.rows
        /\ st_index_id_map' = s.index_id_map
        /\ st_id_to_index' = s.id_to_index
        /\ st_table' = table
        /\ st_result' = <<>>
        /\ st_raised' = FALSE
        /\ st_op' = StoreOp("reload", NoRecord, {}, "", 0)
        /\ st_repeat' = FALSE
        /\ fl_locked' = FALSE
        /\ UNCHANGED <<now, agentVars, invokeVars, breakerVars, besideStore>>

\* the process dies inside add([record]), before _save_index, and a new
\* process opens the backend; under the write lock of another connection
\* add commits nothing
CrashInAdd(record, point) ==
    /\ Len(st_rows) + 1 <= MaxRows
    /\ Reopen(IF point = "after_commit" /\ ~fl_locked
              THEN AddEach(StoreNow, <<record>>).table
              ELSE st_table,
              fl_file)
    /\ fl_phase' = "reloaded"
    /\ UNCHANGED fl_file

\* the process dies inside delete(ids) and a new process opens the backend;
\* a delete that raises never commits
CrashInDelete(ids, point) ==
    /\ Reopen(IF point = "after_commit" /\ ~fl_locked
                    /\ ~DeleteEach(StoreNow, ids).raised
              THEN DeleteEach(StoreNow, ids).table
              ELSE st_table,
              fl_file)
    /\ fl_phase' = "reloaded"
    /\ UNCHANGED fl_file

\* the process ends between two calls and a new process opens the backend
Reload ==
    /\ Reopen(st_table, fl_file)
    /\ fl_phase' = IF fl_phase = "failed" THEN "reloaded" ELSE fl_phase
    /\ UNCHANGED fl_file

(***************************************************************************)
(* CircuitBreakerRegistry.get_or_create (resilience.py) under concurrent   *)
(* callers.  The whole body runs under self._lock; a step is the taking of *)
(* the lock, the test, the making of the breaker, or the return.           *)
(***************************************************************************)
\* calls of get_or_create by one thread
MaxLookups == 1

RegistryKeys == {"k1", "k2"}

\* the configurations a caller may pass
Cfgs == {"c1", "c2"}

\* no thread holds the lock
NoThread == 0

NoArg == [key |-> "", cfg |-> ""]

\* no call has returned
NoBreaker == [key |-> "", obj |-> 0]

RegistryIdle ==
    /\ rg_lock = NoThread
    /\ rg_store = EmptyMap
    /\ rg_objects = <<>>
    /\ rg_pc = [t \in Threads |-> "idle"]
    /\ rg_arg = [t \in Threads |-> NoArg]
    /\ rg_missing = [t \in Threads |-> FALSE]
    /\ rg_got = [t \in Threads |-> NoBreaker]
    /\ rg_calls = [t \in Threads |-> 0]

RegistryFrame == UNCHANGED <<now, agentVars, invokeVars, breakerVars, besideRegistry>>

\* mutant: the lock lets every thread in
MutLockFree(lock) == TRUE

\* threading.Lock: a thread enters when no thread holds it
LockFree(lock) == lock = NoThread

\* thread t calls get_or_create(key, cfg) and comes to `with self._lock`
RegCall(t, key, cfg) ==
    /\ rg_pc[t] = "idle"
    /\ rg_calls[t] < MaxLookups
    /\ rg_pc' = [rg_pc EXCEPT ![t] = "call"]
    /\ rg_arg' = [rg_arg EXCEPT ![t] = [key |-> key, cfg |-> cfg]]
    /\ rg_calls' = [rg_calls EXCEPT ![t] = @ + 1]
    /\ UNCHANGED <<rg_lock, rg_store, rg_objects, rg_missing, rg_got>>
    /\ RegistryFrame

\* it takes the lock
RegAcquire(t) ==
    /\ rg_pc[t] = "call"
    /\ LockFree(rg_lock)
    /\ rg_lock' = t
    /\ rg_pc' = [rg_pc EXCEPT ![t] = "held"]
    /\ UNCHANGED <<rg_store, rg_objects, rg_arg, rg_missing, rg_got, rg_calls>>
    /\ RegistryFrame

\* if key not in self._store
RegTest(t) ==
    /\ rg_pc[t] = "held"
    /\ rg_missing' = [rg_missing EXCEPT ![t] = rg_arg[t].key \notin DOMAIN rg_store]
    /\ rg_pc' = [rg_pc EXCEPT ![t] = "tested"]
    /\ UNCHANGED <<rg_lock, rg_store, rg_objects, rg_arg, rg_got, rg_calls>>
    /\ RegistryFrame

\* self._store[key] = CircuitBreaker(key, cfg), where the test found no entry
RegCreate(t) ==
    /\ rg_pc[t] = "tested"
    /\ rg_missing[t]
    /\ rg_objects' = Append(rg_objects, rg_arg[t])
    /\ rg_store' = Put(rg_store, rg_arg[t].key,
                       [obj |-> Len(rg_objects) + 1, cfg |-> rg_arg[t].cfg])
    /\ rg_missing' = [rg_missing EXCEPT ![t] = FALSE]
    /\ UNCHANGED <<rg_lock, rg_pc, rg_arg, rg_got, rg_calls>>
    /\ RegistryFrame

\* return self._store[key], and the lock is given back
RegReturn(t) ==
    /\ rg_pc[t] = "tested"
    /\ ~rg_missing[t]
    /\ rg_got' = [rg_got EXCEPT ![t] = [key |-> rg_arg[t].key,
                                        obj |-> rg_store[rg_arg[t].key].obj]]
    /\ rg_lock' = IF rg_lock = t THEN NoThread ELSE rg_lock
    /\ rg_pc' = [rg_pc EXCEPT ![t] = "idle"]
    /\ UNCHANGED <<rg_store, rg_objects, rg_arg, rg_missing, rg_calls>>
    /\ RegistryFrame

(***************************************************************************)
(* Specifications.                                                         *)
(***************************************************************************)
vars == <<agentVars, now, invokeVars, breakerVars, otherVars>>

\* the agent at rest
AgentIdle ==
    /\ AgentInit
    /\ pc = "idle"
    /\ enable_memory = TRUE
    /\ skills = {"memory_search"}

\* every part but the one a specification is about is at rest
OtherIdle == PlaceholderIdle /\ StoreIdle /\ FacadeIdle /\ RunnerIdle /\ RedisIdle /\ FileIdle /\ RegistryIdle

Init == AgentInit /\ now = 0 /\ InvokeIdle /\ BreakerIdle /\ OtherIdle

Next == AgentNext

Spec == Init /\ [][Next]_vars

InvokeSpecInit == AgentIdle /\ now = 0 /\ InvokeInit /\ BreakerIdle /\ OtherIdle

InvokeNext ==
    \/ InvokeStart
    \/ AttemptRejected
    \/ AttemptNotOpen
    \/ AttemptTrialSection
    \/ AttemptSubmit
    \/ WorkerReturn
    \/ \E kind \in RaiseKinds : WorkerRaise(kind)
    \/ ResultReady
    \/ ResultRaised
    \/ ResultTimeout
    \/ JoinDone
    \/ Tick

InvokeSpec == InvokeSpecInit /\ [][InvokeNext]_vars

BreakerSpecInit == AgentIdle /\ now = 0 /\ InvokeIdle /\ BreakerIdle /\ OtherIdle

BreakerNext ==
    \/ \E t \in Threads : CallOpen(t)
    \/ \E t \in Threads : CallNotOpen(t)
    \/ \E t \in Threads : CallAdmitted(t)
    \/ \E t \in Threads : CallLimit(t)
    \/ \E t \in Threads : ReportSuccess(t)
    \/ \E t \in Threads : ReportFailure(t)
    \/ Tick

BreakerSpec == BreakerSpecInit /\ [][BreakerNext]_vars

PlaceholderSpecInit ==
    /\ AgentIdle /\ now = 0 /\ InvokeIdle /\ BreakerIdle
    /\ PlaceholderInit /\ StoreIdle /\ FacadeIdle /\ RunnerIdle /\ RedisIdle /\ FileIdle /\ RegistryIdle

PlaceholderNext ==
    \/ PriorStep
    \/ ConsumePlanStep

PlaceholderSpec == PlaceholderSpecInit /\ [][PlaceholderNext]_vars

StoreSpecInit ==
    /\ AgentIdle /\ now = 0 /\ InvokeIdle /\ BreakerIdle
    /\ PlaceholderIdle /\ StoreIdle /\ FacadeIdle /\ RunnerIdle /\ RedisIdle /\ FileIdle /\ RegistryIdle

\* one process on a backend made with its defaults: __init__ makes the
\* parent of index_path and not index_path itself, so every write of
\* index_path/index.faiss fails
StoreNext ==
    \/ \E records \in Batches : Add(records, FALSE)
    \/ \E text \in Contents, top_k \in 1..MaxRows : Search(text, top_k)
    \/ \E ids \in IdLists(UsedIds(StoreNow)) : Delete(ids)
    \/ Clear

StoreSpec == StoreSpecInit /\ [][StoreNext]_vars

FacadeSpecInit ==
    /\ AgentIdle /\ now = 0 /\ InvokeIdle /\ BreakerIdle
    /\ PlaceholderIdle /\ StoreIdle /\ FacadeIdle /\ RunnerIdle /\ RedisIdle /\ FileIdle /\ RegistryIdle

FacadeNext ==
    \/ \E content \in Contents, tier \in Tiers : FacadeAdd(content, tier)
    \/ \E key \in NoteKeys : AddNote(key)
    \/ \E tier \in Tiers : ClearTier(tier)
    \/ \E places \in SUBSET (1..MaxTierRecords) : LongTermDelete(places)
    \/ CallStats

FacadeSpec == FacadeSpecInit /\ [][FacadeNext]_vars

RunnerSpecInit ==
    /\ AgentIdle /\ now = 0 /\ InvokeIdle /\ BreakerIdle
    /\ PlaceholderIdle /\ StoreIdle /\ FacadeIdle /\ RunnerInit /\ RedisIdle /\ FileIdle /\ RegistryIdle

\* what the event loop and the worker threads do by themselves
RunnerStep ==
    \/ RunLoopBegin
    \/ RunLoopTimeout
    \/ \E how \in TickOutcomes : TickEnds(how)
    \/ RunLoopResume
    \/ RunLoopCancelled
    \/ OrphanEnds
    \/ StopReturn
    \/ \E how \in TickOutcomes : TriggerTickEnds(how)
    \/ TriggerReturn

RunnerNext ==
    \/ Start
    \/ StopCall
    \/ TriggerOnce
    \/ RunnerStep
    \/ Elapse

RunnerSpec == RunnerSpecInit /\ [][RunnerNext]_vars

\* the event loop runs every task that can go on, every thread ends its
\* tick, and time passes
RunnerLiveSpec ==
    /\ RunnerSpecInit
    /\ [][RunnerNext]_vars
    /\ WF_vars(RunLoopBegin)
    /\ WF_vars(RunLoopTimeout)
    /\ WF_vars(\E how \in TickOutcomes : TickEnds(how))
    /\ WF_vars(RunLoopResume)
    /\ WF_vars(RunLoopCancelled)
    /\ WF_vars(StopReturn)
    /\ WF_vars(Elapse)

RedisSpecInit == AgentIdle /\ now = 0 /\ InvokeIdle /\ BreakerIdle /\ OtherIdle

\* what a call in progress through object o does next
RedisStep(o) ==
    \/ MemTrialSection(o)
    \/ RedisGetOpenedAt(o)
    \/ RedisElapsed(o)
    \/ RedisHalfOpenPipeline(o)
    \/ RedisGetTrials(o)
    \/ RedisIncrTrials(o)
    \/ RedisReset(o)
    \/ RedisIncrFailures(o)
    \/ RedisStamp(o)
    \/ RedisSetOpenedAt(o)
    \/ RedisSetTrials(o)

RedisNext ==
    \/ \E o \in RedisObjects : BothIsOpen(o)
    \/ \E o \in RedisObjects : BothBeforeCall(o)
    \/ \E o \in RedisObjects : BothOnSuccess(o)
    \/ \E o \in RedisObjects : BothOnFailure(o)
    \/ \E o \in RedisObjects : RedisStep(o)
    \/ RedisTick

RedisSpec == RedisSpecInit /\ [][RedisNext]_vars

ReloadSpecInit == AgentIdle /\ now = 0 /\ InvokeIdle /\ BreakerIdle /\ OtherIdle

ReloadNext ==
    \/ \E record \in TextRecords, saved \in BOOLEAN : Add(<<record>>, saved)
    \/ \E record \in TextRecords, point \in CrashPoints : CrashInAdd(record, point)
    \/ \E id \in UsedIds(StoreNow), point \in CrashPoints : CrashInDelete(<<id>>, point)
    \/ Reload
    \/ \E text \in Contents : Search(text, MaxRows)
    \/ \E id \in UsedIds(StoreNow) : Delete(<<id>>)
    \/ Clear
    \/ Collect

ReloadSpec == ReloadSpecInit /\ [][ReloadNext]_vars

RegistrySpecInit == AgentIdle /\ now = 0 /\ InvokeIdle /\ BreakerIdle /\ OtherIdle

RegistryNext ==
    \/ \E t \in Threads, key \in RegistryKeys, cfg \in Cfgs : RegCall(t, key, cfg)
    \/ \E t \in Threads : RegAcquire(t)
    \/ \E t \in Threads : RegTest(t)
    \/ \E t \in Threads : RegCreate(t)
    \/ \E t \in Threads : RegReturn(t)

RegistrySpec == RegistrySpecInit /\ [][RegistryNext]_vars

(***************************************************************************)
(* Claims about safe_invoke and the circuit breaker.                       *)
(***************************************************************************)
\* the skill itself failed in call i: it raised or it timed out
SkillFailed(i) == calls[i].result \in {"skill_error", "timeout"}

\* calls i .. i + FailureThreshold - 1 are failures of the skill and call
\* i + FailureThreshold reaches its before_call before the recovery timeout
\* has elapsed since the last of them ended
FailuresThenCall(i) ==
    /\ i + FailureThreshold <= Len(calls)
    /\ \A j \in i..(i + FailureThreshold - 1) : SkillFailed(j)
    /\ calls[i + FailureThreshold].checked /= NoTime
    /\ calls[i + FailureThreshold].checked - calls[i + FailureThreshold - 1].end
         < RecoveryTimeout

\* C6: with a circuit breaker of failure_threshold 2 and a registry shared
\* through the context, two consecutive failing safe_invoke calls on a key
\* make the call that follows at once raise CircuitOpen, the skill not
\* being invoked.
C6_OpensAfterThreshold ==
    (sla.circuit_breaker /\ has_registry) =>
        \A i \in 1..Len(calls) :
            FailuresThenCall(i) =>
                /\ calls[i + FailureThreshold].result = "circuit_open"
                /\ calls[i + FailureThreshold].invoked = 0

C6_Witness ==
    /\ sla.circuit_breaker
    /\ has_registry
    /\ ipc = "idle"
    /\ \E i \in 1..Len(calls) :
        /\ FailuresThenCall(i)
        /\ calls[i].result = "skill_error"
        /\ calls[i + 1].result = "timeout"
        /\ calls[i + FailureThreshold].result = "circuit_open"

\* C7: when the context carries no registry, the state of the breaker of a
\* skill still lasts from one safe_invoke call to the next: after
\* failure_threshold failing calls the next call raises CircuitOpen, not
\* the error of the skill.
C7_OpensWithoutRegistry ==
    (sla.circuit_breaker /\ ~has_registry) =>
        \A i \in 1..Len(calls) :
            FailuresThenCall(i) => calls[i + FailureThreshold].result = "circuit_open"

\* C10: a safe_invoke call on a skill whose SLA has timeout_seconds = 0
\* raises a timeout error whenever it runs the skill, whatever the order of
\* the worker and the waiting caller.
C10_ZeroTimeoutAlwaysTimesOut ==
    sla.timeout_seconds = 0 =>
        \A i \in 1..Len(calls) : calls[i].invoked > 0 => calls[i].result = "timeout"

\* C8: once the circuit has opened and the recovery timeout has elapsed,
\* exactly half_open_trial_requests (one) trial is admitted while no result
\* is reported: never more, and no caller is turned away while the trial is
\* still to be had.  When the trial succeeds the breaker has failures = 0
\* and opened_at cleared, and every call that follows is admitted.
C8_TrialThenRecovery ==
    /\ window.active =>
        /\ window.admitted <= HalfOpenTrialRequests
        /\ window.rejected => window.admitted = HalfOpenTrialRequests
    /\ recovered =>
        /\ cb.failures = 0
        /\ cb.opened_at = NoTime
        /\ ~cb.half_open
        /\ ~since.rejected

C8_Witness ==
    /\ recovered
    /\ since.admitted
    /\ cb.failures = 0
    /\ cb.opened_at = NoTime

\* C9: under every interleaving of the callers of one breaker, between the
\* move to half-open and the next reported result at most
\* half_open_trial_requests calls pass before_call; the other callers of
\* that window get CircuitOpen.
C9_HalfOpenBudget ==
    window.active =>
        /\ cb.half_open
        /\ window.admitted = cb.trials
        /\ cb.trials <= HalfOpenTrialRequests

C9_Witness ==
    /\ window.active
    /\ window.admitted = HalfOpenTrialRequests
    /\ window.rejected
    /\ \E t \in Threads : tpc[t] = "admitted" /\ trial[t]
    /\ \E t \in Threads : tpc[t] = "rejected"

(***************************************************************************)
(* safe_invoke under fair scheduling of the caller.  The caller's thread   *)
(* and the clock always make progress; nothing is assumed of the skill,    *)
(* whose work on the worker may never finish.                              *)
(***************************************************************************)
\* a step of the thread that called safe_invoke
CallerStep ==
    \/ InvokeStart
    \/ AttemptRejected
    \/ AttemptNotOpen
    \/ AttemptTrialSection
    \/ AttemptSubmit
    \/ ResultReady
    \/ ResultRaised
    \/ ResultTimeout
    \/ JoinDone

InvokeLiveSpec ==
    InvokeSpecInit /\ [][InvokeNext]_vars /\ WF_vars(CallerStep) /\ WF_vars(Tick)

\* the attempt's timeout has run out while the caller waits for the future
TimeoutElapsed ==
    /\ ipc = "waiting"
    /\ now - submitted_at >= sla.timeout_seconds

\* C11: safe_invoke always terminates within its attempts, even when the
\* work of the skill never finishes: once the timeout of an attempt has run
\* out the caller gets control back (the call ends or goes on to its next
\* attempt).
C11_CallerReleased == TimeoutElapsed ~> (ipc \in {"idle", "loop"})

\* the step ends a call by raising the failure of the skill
RaisesSkillFailure ==
    /\ Len(calls') = Len(calls) + 1
    /\ calls'[Len(calls')].result \in {"skill_error", "timeout"}

\* C12: when a circuit breaker is configured, one safe_invoke call invokes
\* the skill at most once whatever SLA.retries is: the first timeout or
\* exception records exactly one failure on the breaker and the call raises
\* without another attempt.  A BaseException that is no Exception
\* (KeyboardInterrupt, SystemExit) ends the call as well, after its one
\* invocation; it is no failure of the skill and the breaker keeps its count.
C12_BreakerStopsRetries ==
    [][ breaker_kind /= "none" =>
          /\ invocations' <= 1
          /\ (Len(calls') = Len(calls) + 1
                /\ calls'[Len(calls')].result = "base_exception") =>
                /\ calls'[Len(calls')].invoked = 1
                /\ Cur' = Cur
          /\ (ipc \in {"waiting", "joining"} /\ ipc' /= ipc) =>
                ipc' \in {"joining", "idle"}
          /\ RaisesSkillFailure =>
                /\ calls'[Len(calls')].invoked = 1
                /\ Cur'.failures = Cur.failures + 1 ]_vars

C12_Witness ==
    /\ sla.circuit_breaker
    /\ sla.retries > 1
    /\ has_registry
    /\ Len(calls) = 1
    /\ calls[1].result = "timeout"
    /\ calls[1].invoked = 1
    /\ registry.cb.failures = 1

\* attempts of the current call that logged a failure
FailedAttempts ==
    Cardinality({ i \in DOMAIN events : events[i].msg \in {"skill_timeout", "skill_exception"} })

\* the exception kind an attempt's log message stands for
ExcOfMsg(msg) == IF msg = "skill_timeout" THEN "timeout" ELSE "skill_error"

\* C13: when no circuit breaker is configured, one safe_invoke call invokes
\* the skill at least once and at most max(1, SLA.retries) times, stops at
\* the first attempt that succeeds, and when every attempt fails raises the
\* error of the last attempt.  A timeout and an Exception of the skill are
\* followed by the next attempt while attempts remain; a BaseException that
\* is no Exception (KeyboardInterrupt, SystemExit) is raised to the caller
\* by the attempt that met it.
C13_RetriesWithoutBreaker ==
    ~sla.circuit_breaker =>
        /\ invocations <= (IF sla.retries >= 1 THEN sla.retries ELSE 1)
        /\ (ipc = "idle" /\ Len(calls) > 0) =>
            LET c == calls[Len(calls)] IN
            /\ c.invoked >= 1
            /\ c.invoked = invocations
            /\ c.result = "ok" =>
                /\ c.invoked = FailedAttempts + 1
                /\ events[Len(events)].msg = "skill_succeeded"
            /\ c.result = "base_exception" =>
                /\ c.invoked = FailedAttempts + 1
                /\ worker = "raised_base"
            /\ c.result \notin {"ok", "base_exception"} =>
                /\ c.invoked = (IF sla.retries >= 1 THEN sla.retries ELSE 1)
                /\ FailedAttempts = c.invoked
                /\ c.result = ExcOfMsg(events[Len(events) - 1].msg)

C13_Witness ==
    /\ ~sla.circuit_breaker
    /\ sla.retries = 2
    /\ ipc = "idle"
    /\ Len(calls) = 2
    /\ calls[1].result = "ok"
    /\ calls[1].invoked = 2
    /\ calls[2].result = "skill_error"
    /\ calls[2].invoked = 2
    /\ events[2].msg = "skill_timeout"

\* C14: whenever safe_invoke returns a result for a skill with a breaker,
\* the breaker of that key is fully closed at the return (failure count 0,
\* opened_at none, not half-open) and the skill was not invoked again after
\* the attempt that succeeded.
C14_ClosedAtReturn ==
    (sla.circuit_breaker /\ ipc = "idle" /\ Len(calls) > 0
        /\ calls[Len(calls)].result = "ok") =>
        /\ Cur.failures = 0
        /\ Cur.opened_at = NoTime
        /\ ~Cur.half_open
        /\ Cur.trials = 0
        /\ worker = "returned"
        /\ invocations = FailedAttempts + 1
        /\ calls[Len(calls)].invoked = invocations
        /\ events[Len(events)].msg = "skill_succeeded"

C14_Witness ==
    /\ sla.circuit_breaker
    /\ has_registry
    /\ ipc = "idle"
    /\ Len(calls) = 3
    /\ SkillFailed(1)
    /\ SkillFailed(2)
    /\ calls[3].result = "ok"
    /\ registry.cb = CbNew

\* events of the current call whose event field is e
CountEvent(e) == Cardinality({ i \in DOMAIN events : events[i].event = e })

\* C15: every safe_invoke call emits the started event exactly once and
\* before any attempt; each attempt that fails emits timeout, exception or
\* circuit_open according to its cause; and the call ends by emitting
\* succeeded if and only if it returns a result, failed if and only if it
\* raises.  An event is the event field of the structured record.
C15_LifecycleEvents ==
    (ipc = "idle" /\ Len(calls) > 0) =>
        LET c == calls[Len(calls)]
            n == Len(events)
            ok == c.result = "ok"
        IN  /\ events[1].event = "skill_started"
            /\ CountEvent("skill_started") = 1
            /\ CountEvent("skill_succeeded") = (IF ok THEN 1 ELSE 0)
            /\ CountEvent("skill_failed") = (IF ok THEN 0 ELSE 1)
            /\ events[n].event = (IF ok THEN "skill_succeeded" ELSE "skill_failed")
            /\ \A i \in 2..(n - 1) :
                events[i].event \in {"skill_timeout", "skill_exception", "circuit_open"}
            /\ c.result = "skill_error" => events[n - 1].event = "skill_exception"
            /\ c.result = "timeout" => events[n - 1].event = "skill_timeout"
            /\ c.result = "circuit_open" => events[n - 1].event = "circuit_open"

(***************************************************************************)
(* Claims about plans.                                                     *)
(***************************************************************************)
\* the plan is [memory_search, question_answering]
SearchThenAnswerPlan ==
    /\ plan_used
    /\ Len(plan) = 2
    /\ plan[1].skill = "memory_search"
    /\ plan[2].skill = "question_answering"

\* the first step of the run was a memory_search that returned an empty
\* matches list
FirstStepNoMatches ==
    /\ Len(step_results) >= 1
    /\ step_results[1].success
    /\ step_results[1].empty_matches

\* C16: for a plan of two steps, memory_search returning an empty matches
\* list and question_answering returning an answer a, Agent.run (given room
\* for two steps, no engine exception and no step ended by a BaseException
\* that is no Exception) returns status = success,
\* final_answer = a and steps_taken = 2: the memory_search step with no
\* matches does not stop the run while plan steps remain.
C16_NoMatchPlanStepContinues ==
    (SearchThenAnswerPlan /\ FirstStepNoMatches /\ ~engine_exc /\ ~base_exc
        /\ max_steps >= 2) =>
        /\ Len(step_results) = 1 => (pc = "loop" /\ final_answer = Null)
        /\ (/\ Len(step_results) = 2
            /\ step_results[2].success
            /\ skills_invoked[2] = "question_answering"
            /\ Truthy(last_step.scalar)) =>
                /\ pc \in {"post", "finally", "done"}
                /\ status = "success"
                /\ final_answer = last_step.scalar
                /\ pc = "done" => (steps_taken = 2 /\ outcome = "returned")

C16_Witness ==
    /\ SearchThenAnswerPlan
    /\ FirstStepNoMatches
    /\ pc = "done"
    /\ Len(step_results) = 2
    /\ step_results[2].success
    /\ skills_invoked = <<"memory_search", "question_answering">>
    /\ status = "success"
    /\ final_answer = Str("a")
    /\ steps_taken = 2

(***************************************************************************)
(* Claims about plan inputs.                                               *)
(***************************************************************************)
\* positions in a value: the indices to follow from the root
Positions == SeqsUpTo(1..(MaxListLen + 1), 3)

RECURSIVE Valid(_, _)
Valid(v, p) ==
    p = <<>> \/ (Head(p) \in DOMAIN v.items /\ Valid(v.items[Head(p)], Tail(p)))

RECURSIVE At(_, _)
At(v, p) == IF p = <<>> THEN v ELSE At(v.items[Head(p)], Tail(p))

\* params is the input with every value that is exactly <LAST_RESULT>
\* replaced by repl and everything else as it was
ReplacedBy(repl) ==
    \A p \in Positions :
        Valid(ph_given, p) =>
            /\ Valid(ph_params, p)
            /\ At(ph_params, p).k = At(ph_given, p).k
            /\ At(ph_params, p).keys = At(ph_given, p).keys
            /\ Len(At(ph_params, p).items) = Len(At(ph_given, p).items)
            /\ At(ph_given, p).k \in {"str", "int"} =>
                At(ph_params, p) = (IF At(ph_given, p) = Placeholder THEN TStr(repl)
                                    ELSE At(ph_given, p))

\* C17 as stated: when a plan step is consumed, every value of its input
\* map, through nested maps and lists, that is exactly <LAST_RESULT> is
\* replaced by the answer most recently extracted from an earlier step (the
\* empty string if none), the other values are passed unchanged and the
\* stored input map is not modified.
C17_Original ==
    ph_pc = "used" =>
        /\ ReplacedBy(LastOrEmpty(ph_cand))
        /\ ph_input = ph_given

\* C17 amended: the replacement is the last result text: the most recent
\* among the answers extracted from earlier steps, the texts of their
\* memory matches and the plain str outputs of earlier steps (the empty
\* string if there is none).
C17_ReplacedByLastResultText ==
    ph_pc = "used" =>
        /\ ReplacedBy(LastOrEmpty(ph_last))
        /\ ph_input = ph_given

C17_Witness ==
    /\ ph_pc = "used"
    /\ ph_cand = Str("a")
    /\ ph_last = Str("s")
    /\ ph_given = TDict(<<"text", "opts">>,
                        <<TList(<<Placeholder, TStr("<LAST_RESULT>!")>>),
                          TDict(<<"tags">>, <<TList(<<Placeholder, TStr("x")>>)>>)>>)
    /\ ph_params = TDict(<<"text", "opts">>,
                         <<TList(<<TStr("s"), TStr("<LAST_RESULT>!")>>),
                           TDict(<<"tags">>, <<TList(<<TStr("s"), TStr("x")>>)>>)>>)

\* C18: if no planner skill is registered, or the planner invocation raises
\* an Exception or gives no usable step list, Agent.run still completes
\* normally: the plan is empty, plan_used is false and every step is chosen
\* by the router; the run returns, unless later the router or a skill ends
\* it with a BaseException that is no Exception.
C18_RouterOnlyWithoutPlan ==
    planner \in {"absent", "raised", "unusable", "no_usable"} =>
        /\ plan = <<>>
        /\ ~plan_used
        /\ \A i \in DOMAIN step_results : ~step_results[i].is_plan
        /\ outcome = "raised" => base_exc
        /\ pc = "done" => /\ outcome = "returned" <=> ~base_exc
                          /\ steps_taken = Len(step_results)

C18_Witness ==
    /\ planner = "no_usable"
    /\ pc = "done"
    /\ outcome = "returned"
    /\ status = "success"
    /\ Len(step_results) = 2
    /\ ~step_results[1].is_plan

(***************************************************************************)
(* Claims about the long-term vector store.                                *)
(***************************************************************************)
\* C19: adding a record R and then searching with R's exact content and
\* top_k = 1 returns R alone, whatever the store held before.
C19_AddThenSearchReturnsRecord ==
    [][(/\ st_op.op = "add"
        /\ st_op'.op = "search"
        /\ st_op'.top_k = 1
        /\ st_op'.query = st_op.last.content)
            => st_result' = <<st_op.last>>]_vars

\* C20: a delete that repeats the ids of the delete just before it does not
\* raise, no more than the first did, and leaves count(), the rows of
\* memory_records and the two id/row maps as the first delete left them.
C20_SecondDeleteIsNoOp ==
    [][(/\ st_op.op = "delete"
        /\ st_op'.op = "delete"
        /\ st_op'.ids = st_op.ids)
            => /\ ~st_raised
               /\ ~st_raised'
               /\ Count(st_table') = Count(st_table)
               /\ st_table' = st_table
               /\ st_index_id_map' = st_index_id_map
               /\ st_id_to_index' = st_id_to_index]_vars

\* id "a" was added twice and then deleted twice: row 0 still names it
C20_Witness ==
    /\ st_op.op = "delete"
    /\ st_op.ids = {"a"}
    /\ st_repeat
    /\ ~st_raised
    /\ Len(st_rows) = 2
    /\ st_index_id_map = Put(EmptyMap, 0, "a")
    /\ st_id_to_index = EmptyMap
    /\ Count(st_table) = 0

\* C21: a search returns at most top_k records and each of them has a row in
\* memory_records, with the content of that row; a delete takes the rows of
\* its ids away and only add brings an id back, so that a record deleted
\* and not added again is never returned.
C21_SearchReturnsLiveRecords ==
    [][/\ st_op'.op = "search" =>
            /\ Len(st_result') <= st_op'.top_k
            /\ \A i \in DOMAIN st_result' :
                    /\ st_result'[i].id \in DOMAIN st_table'
                    /\ st_result'[i].content = st_table'[st_result'[i].id].content
       /\ st_op'.op = "delete" =>
            /\ ~st_raised'
            /\ st_op'.ids \cap DOMAIN st_table' = {}
       /\ st_op'.op /= "add" => DOMAIN st_table' \subseteq DOMAIN st_table]_vars

\* "a" was added, then another record, then "a" was deleted: a search for
\* two rows meets the row of "a" and returns the other record alone
C21_Witness ==
    /\ st_op.op = "search"
    /\ st_op.top_k = 2
    /\ Len(st_rows) = 2
    /\ st_index_id_map = Put(EmptyMap, 1, "u1")
    /\ DOMAIN st_table = {"u1"}
    /\ Len(st_result) = 1
    /\ st_result[1].id = "u1"

(***************************************************************************)
(* Claims about the memory facade.                                         *)
(***************************************************************************)
\* C22: stats() gives for each of the three tiers the number of records the
\* tier holds.
C22_StatsCountsTiers ==
    fa_op.op = "stats" =>
        /\ ~fa_stats.raised
        /\ fa_stats.short_term = Len(fa_short)
        /\ fa_stats.long_term = Len(fa_long)
        /\ fa_stats.scratchpad = Len(fa_scratch)

(***************************************************************************)
(* Claims about the background loop.                                       *)
(***************************************************************************)
\* C23: once stop() has returned, and until start() is called again, the
\* runner is not running, no tick of the loop is still executing and the
\* loop begins no tick.
C23_StoppedMeansQuiet ==
    rn_stopped =>
        /\ ~IsRunning
        /\ rn_task /= "in_tick"
        /\ rn_thread /= "running"
        /\ rn_orphans = 0

\* C24: a tick that raises an Exception does not make trigger_once() raise
\* and does not end the loop.  Where the task of the loop goes on after such
\* a tick (no stop() has cancelled it meanwhile), as where trigger_once()
\* goes on, failed_runs is one higher and last_error is set; the loop then
\* waits a whole interval again, and no tick of the loop begins before a
\* whole interval has passed since the tick before it was over.
\* trigger_once() raises in one case only: the tick raised a BaseException
\* that is no Exception (CancelledError, KeyboardInterrupt, SystemExit).
C24_TickFailureIsContained ==
    [][/\ (tr_pc = "in_tick" /\ tr_pc' = "idle") =>
            /\ tr_outcome' = (IF tr_thread \in {"raised_base", "raised_cancelled"}
                              THEN "raised" ELSE "returned")
            /\ tr_thread = "raised" =>
                    /\ tr_outcome' = "returned"
                    /\ rn_stats'.failed_runs = rn_stats.failed_runs + 1
                    /\ rn_stats'.total_runs = rn_stats.total_runs + 1
                    /\ rn_stats'.last_error = "error"
       /\ (rn_task = "in_tick" /\ rn_thread = "raised" /\ ~rn_cancel
                /\ rn_task' /= "in_tick") =>
            /\ rn_task' = "waiting"
            /\ rn_wait' = Interval
            /\ rn_stats'.failed_runs = rn_stats.failed_runs + 1
            /\ rn_stats'.total_runs = rn_stats.total_runs + 1
            /\ rn_stats'.last_error = "error"
       /\ (rn_task = "waiting" /\ rn_task' = "in_tick") =>
            /\ rn_since = Interval
            /\ rn_wait = 0]_vars

\* the first tick of the loop raised, trigger_once was not used, and the
\* second tick of the loop has begun a whole interval after the first
C24_Witness ==
    /\ rn_task = "in_tick"
    /\ rn_started = 2
    /\ tr_started = 0
    /\ rn_stats.failed_runs = 1
    /\ rn_stats.total_runs = 1
    /\ rn_stats.last_error = "error"
    /\ rn_tick_after = Interval
    /\ ~rn_stopped

\* the loop is started, no stop() is under way, and it may begin a tick
LoopDue ==
    /\ rn_task \in {"created", "waiting"}
    /\ ~rn_cancel
    /\ rn_started < MaxRuns

\* C25: a started loop keeps ticking.  A tick of the loop is either the
\* first thing the loop does, with run_immediately, or begins when a whole
\* interval has passed since start() or since the tick before it was over;
\* a tick that is over (it returned or raised an Exception) with no stop()
\* called is followed by the wait for the next one; and as long as no
\* stop() is called, a loop that waits comes to its next tick.  Only a tick
\* that raises a BaseException that is no Exception ends the loop without
\* a stop().
C25_TicksKeepComing ==
    /\ [](rn_task = "in_tick" =>
            IF rn_first THEN rn_immediate ELSE rn_tick_after = Interval)
    /\ [](rn_task = "waiting" => ~rn_first)
    /\ [][(rn_task = "in_tick" /\ ~rn_cancel /\ rn_task' /= "in_tick") =>
                IF rn_thread \in {"returned", "raised"}
                THEN rn_task' = "waiting" /\ rn_wait' = Interval /\ ~rn_cancel'
                ELSE rn_thread \in {"raised_base", "raised_cancelled"}
                     /\ rn_task' \in {"done", "failed"}]_vars
    /\ (LoopDue ~> (rn_task = "in_tick" \/ rn_cancel))

\* without run_immediately and without stop(): the first tick of the loop
\* returned, and the second has begun a whole interval later
C25_Witness ==
    /\ ~rn_immediate
    /\ rn_task = "in_tick"
    /\ rn_started = 2
    /\ tr_started = 0
    /\ rn_stats.successful_runs = 1
    /\ rn_stats.total_runs = 1
    /\ rn_tick_after = Interval
    /\ rn_orphans = 0
    /\ ~rn_stopped

\* the caller of trigger_once() moves: the call begins, or it returns
TriggerMoves == tr_pc' /= tr_pc

\* C26: trigger_once() runs the tick once per call and leaves the loop alone.
\* Every call begins one tick and returns after that tick, started loop or
\* not, so the ticks begun by trigger_once() are the calls that returned and
\* the one in flight; and a step of the call changes neither the task of the
\* loop, its stop event, its wait nor the time left until its next tick.
C26_TriggerOnceLeavesLoopAlone ==
    [][/\ TriggerMoves =>
            /\ UNCHANGED loopVars
            /\ IsRunning' = IsRunning
            /\ IF tr_pc = "idle"
               THEN tr_started' = tr_started + 1 /\ tr_calls' = tr_calls
               ELSE tr_started' = tr_started /\ tr_calls' = tr_calls + 1
       /\ ~TriggerMoves => (tr_started' = tr_started /\ tr_calls' = tr_calls)
       /\ tr_started' = tr_calls' + (IF tr_pc' = "in_tick" THEN 1 ELSE 0)]_vars

\* trigger_once() has returned while the loop was in the middle of the wait
\* after its first tick, and the wait goes on from where it was
C26_Witness ==
    /\ tr_calls = 1
    /\ tr_pc = "idle"
    /\ rn_task = "waiting"
    /\ rn_wait = 1
    /\ rn_since = 1
    /\ rn_started = 1
    /\ rn_stats.total_runs = 2
    /\ rn_immediate

(***************************************************************************)
(* Claims about failures and the end of Agent.run.                         *)
(***************************************************************************)
\* an iteration of the loop is taken, and its step fails: the routing or the
\* skill call raises an Exception
FailedIter == pc = "loop" /\ step_num' = step_num + 1 /\ ~last_step'.ok /\ ~base_exc'

\* an iteration of the loop is taken, and the routing or the skill call ends
\* the run with a BaseException that is no Exception
AbortedIter == pc = "loop" /\ step_num' = step_num + 1 /\ base_exc'

\* C27: a failed step is recorded as a step result with success = false and
\* ends the loop exactly when it was chosen by the router or was the last
\* step of the plan; a plan step is always the step after the one taken
\* before it, so that after a failed plan step with steps left the loop
\* takes the next plan step, unless max_steps is used up.  (A step ended by
\* a BaseException that is no Exception is no failed step: it ends the run,
\* which raises, and nothing is recorded for it.)
C27_FailedStepRecordedAndPlanGoesOn ==
    [][/\ FailedIter =>
            /\ Len(step_results') = Len(step_results) + 1
            /\ SubSeq(step_results', 1, Len(step_results)) = step_results
            /\ ~step_results'[Len(step_results')].success
            /\ step_results'[Len(step_results')].is_plan = IsPlanStep
            /\ steps_completed' = steps_completed
            /\ IF IsPlanStep /\ plan_index + 1 < Len(plan)
               THEN pc' = "loop" /\ plan_index' = plan_index + 1
               ELSE pc' = "post" /\ loop_exit' = "failure"
       /\ (pc = "loop" /\ IsPlanStep) =>
            \/ /\ step_num < max_steps
               /\ step_num' = step_num + 1
               /\ plan_index' = plan_index + 1
               /\ Len(step_results') = Len(step_results) + 1
               /\ step_results'[Len(step_results')].is_plan
            \/ /\ step_num >= max_steps
               /\ pc' = "post"
               /\ loop_exit' = "exhausted"
               /\ UNCHANGED <<step_num, plan_index, step_results>>
            \/ /\ AbortedIter
               /\ pc' = "finally"
               /\ loop_exit' = "raise"
               /\ UNCHANGED step_results
            \/ UNCHANGED <<pc, step_num, plan_index, step_results>>]_vars

\* the first plan step failed, and the second plan step was taken after it
C27_Witness ==
    /\ Len(plan) = 2
    /\ Len(step_results) = 2
    /\ ~step_results[1].success
    /\ step_results[1].is_plan
    /\ step_results[2].is_plan
    /\ step_results[2].success
    /\ plan_index = 2
    /\ failure_occurred

\* C28: when the loop is left because of a step failure, the returned result
\* has status = partial, and its final_answer is the candidate answer of an
\* earlier step if there is one and null otherwise.  With memory enabled
\* recall_context is called after the loop, once the status has been set
\* (lines 476 and 481); when that call raises, the run ends with status =
\* failed and a null final_answer.
C28_FailureHaltGivesPartial ==
    (pc = "done" /\ loop_exit = "failure")
    => /\ status = "partial"
       /\ final_answer = (IF Truthy(final_answer_candidate)
                          THEN final_answer_candidate ELSE Null)

\* C29: a run plans once, before its first step, then takes its steps and
\* ends with the status success, partial or failed; a status of success or
\* partial, once assigned to the result, is not assigned over, and no skill
\* is invoked after it.  (A run that the planner, the router or a skill ends
\* with a BaseException that is no Exception raises and has no final status.)
C29_StatusSetOnce ==
    [][/\ planner' /= planner =>
            /\ pc = "planning" /\ planner = "none" /\ step_num = 0
            /\ pc' = "loop" \/ (base_exc' /\ pc' = "done")
       /\ step_num' /= step_num => (pc = "loop" /\ planner /= "none")
       /\ (pc' = "done" /\ ~base_exc') => status' \in {"success", "partial", "failed"}
       /\ \A i \in 1..(Len(status_writes') - 1) :
            status_writes'[i] \notin {"success", "partial"}
       /\ status \in {"success", "partial"} =>
            /\ status' = status
            /\ skills_invoked' = skills_invoked
            /\ step_num' = step_num]_vars

(***************************************************************************)
(* Claims about the memory_search branch of Agent.run.                     *)
(***************************************************************************)
\* a match passes the filter of the branch: its text, trimmed, is a text
\* other than the trimmed query and no serialized debug object
PassesFilter(m, query_clean) ==
    /\ m.isdict
    /\ Strip(m.text) /= ""
    /\ Strip(m.text) /= query_clean
    /\ ~LooksLikeDebugObject(Strip(m.text))

\* the answer the rule of the branch names: the first match that passes the
\* filter, else the text of the first raw match, else none
RuleAnswer(matches, query_clean) ==
    IF \E i \in DOMAIN matches : PassesFilter(matches[i], query_clean)
    THEN LET i == CHOOSE j \in DOMAIN matches :
                    /\ PassesFilter(matches[j], query_clean)
                    /\ \A k \in 1..(j - 1) : ~PassesFilter(matches[k], query_clean)
         IN  Str(Strip(matches[i].text))
    ELSE IF matches /= <<>> /\ matches[1].isdict /\ matches[1].text /= ""
         THEN Str(matches[1].text)
         ELSE Null

\* C30: when the step invoked is memory_search, its output holds a matches
\* list, no answer was extracted from the output, and the step was chosen
\* by the router or is the last plan step, the run stops at this step: with
\* status = success and, as final_answer, the first match whose trimmed
\* text differs from the trimmed query and is no serialized debug object,
\* or, every match being filtered out, the text of the first raw match;
\* with status = partial and the fixed nothing-found answer if no match
\* has a usable text.
C30_MemorySearchAnswer ==
    (pc = "loop" /\ step_num < max_steps) =>
    \A src \in StepSources, out \in MatchOutputs :
        LET d == Dispatch(src)
            plan_remaining == NextPlanIndex < Len(plan)
            r == Decide(out, d, src.is_plan, plan_remaining)
            rule == RuleAnswer(out.matches, QueryClean(d.params, query))
        IN  (/\ d.found
             /\ d.skill = "memory_search"
             /\ ~Truthy(ExtractAnswerText(out))
             /\ ~(src.is_plan /\ plan_remaining))
            => IF rule /= Null
               THEN r.exit = "success" /\ r.status = "success" /\ r.final = rule
               ELSE r.exit = "nomatch" /\ r.status = "partial" /\ r.final = NoMatchAnswer

(***************************************************************************)
(* Claims about the states of the circuit breaker.                         *)
(***************************************************************************)
\* C31: when the trial admitted by a half-open breaker reports its failure
\* while the breaker is half-open, the breaker is open again, no longer
\* half-open, with opened_at the time of that failure; and as long as less
\* than recovery_timeout_seconds have passed since opened_at, every
\* before_call that begins is turned away with CircuitOpen.
C31_FailedTrialReopens ==
    [][/\ \A t \in Threads :
            (/\ tpc[t] = "admitted"
             /\ trial[t]
             /\ cb.half_open
             /\ tpc'[t] = "idle"
             /\ cb'.failures = cb.failures + 1)
            => /\ cb'.opened_at = now
               /\ ~cb'.half_open
               /\ cb'.trials = 0
               /\ IsOpen(cb', now)
       /\ (cb.opened_at /= NoTime /\ now - cb.opened_at < RecoveryTimeout) =>
            \A t \in Threads :
                (tpc[t] \in {"idle", "rejected"} /\ tpc'[t] /= tpc[t])
                => tpc'[t] = "rejected"]_vars

\* the circuit opened at time 0, its trial failed at time 2, and a caller
\* has been turned away at that time
C31_Witness ==
    /\ trial_failed_at = 2
    /\ now = 2
    /\ cb.opened_at = 2
    /\ ~cb.half_open
    /\ cb.failures > FailureThreshold
    /\ \E t \in Threads : tpc[t] = "rejected"
    /\ \E t \in Threads : tpc[t] = "idle"

\* C32: while a half-open breaker has given out its whole trial budget and
\* no result has been reported since, the breaker is in the open state:
\* opened_at is set and is_open answers True.
C32_ExhaustedBudgetIsOpen ==
    (window.active /\ window.admitted >= HalfOpenTrialRequests)
    => /\ cb.opened_at /= NoTime
       /\ IsOpen(cb, now)

(***************************************************************************)
(* Claims about the Redis-backed breaker.                                  *)
(***************************************************************************)
\* the keys hold what the in-memory breaker holds: the same count of
\* failures, the same opening time, and in the half-open state the same
\* count of trials
KeysMatch(b, r) ==
    /\ b.failures = (IF r.failures = NoKey THEN 0 ELSE r.failures)
    /\ b.opened_at = r.opened_at
    /\ b.half_open <=> (r.opened_at = NoKey /\ r.half_open_trials /= NoKey)
    /\ b.half_open => b.trials = r.half_open_trials

\* C33: when before_call, on_success, on_failure, is_open and the clock are
\* applied one after the other (no call begins and no second passes while a
\* call is in progress) to an in-memory breaker and to the keys of a
\* Redis-backed one, through either of two Redis-backed objects, every
\* before_call is admitted by both or rejected by both, every is_open gives
\* the same answer on both, and the keys that one object left
\* are the state the other object works on: between two calls they hold
\* what the in-memory breaker holds.
C33_RedisLikeInMemory ==
    ~rd_mixed =>
        /\ rd_last.memory = rd_last.redis
        /\ ~InCall => KeysMatch(rd_mem, rd_keys)

\* Object r1 was let through as the trial of a half-open circuit, and the
\* next call, made through object r2, is rejected for the trial limit on
\* both sides.
C33_Witness ==
    /\ rd_prev.op = "before_call" /\ rd_prev.obj = "r1" /\ rd_prev.redis = "admitted"
    /\ rd_last.op = "before_call" /\ rd_last.obj = "r2" /\ rd_last.redis = "rejected"
    /\ rd_last.memory = "rejected"
    /\ rd_mem.half_open /\ rd_mem.trials = HalfOpenTrialRequests
    /\ rd_keys.opened_at = NoKey /\ rd_keys.half_open_trials = HalfOpenTrialRequests
    /\ ~rd_mixed
    /\ ~InCall

(***************************************************************************)
(* Claims about a timeout of safe_invoke and the work left behind.         *)
(***************************************************************************)
\* C34: when fut.result gives up on an attempt whose work is still running,
\* safe_invoke goes on at once, to its next attempt or to raising, and the
\* work is left running behind it; it does not wait for the work.
C34_TimeoutLeavesWorkRunning ==
    [][(ipc = "waiting" /\ worker = "running" /\ ipc' /= "waiting")
         => (ipc' \in {"loop", "idle"} /\ worker' = "running")]_vars

(***************************************************************************)
(* Claims about what delete and a reload leave of the vector store.        *)
(***************************************************************************)
\* C35: delete(ids) takes away, for each id given, its row of memory_records,
\* its entry of _id_to_index and every entry of _index_id_map that names it,
\* and leaves the rest as it was: the index holds as many vectors as
\* before, and the table rows and the map entries of the other ids are
\* the same.
C35_DeleteFrame ==
    [][st_op'.op = "delete" =>
        /\ ~st_raised'
        /\ Len(st_rows') = Len(st_rows)
        /\ \A id \in st_op'.ids :
                /\ id \notin DOMAIN st_table'
                /\ id \notin DOMAIN st_id_to_index'
                /\ \A r \in DOMAIN st_index_id_map' : st_index_id_map'[r] /= id
        /\ DOMAIN st_table' = DOMAIN st_table \ st_op'.ids
        /\ \A k \in DOMAIN st_table' : st_table'[k] = st_table[k]
        /\ DOMAIN st_id_to_index' = DOMAIN st_id_to_index \ st_op'.ids
        /\ \A k \in DOMAIN st_id_to_index' : st_id_to_index'[k] = st_id_to_index[k]
        /\ DOMAIN st_index_id_map' \subseteq DOMAIN st_index_id_map
        /\ \A r \in DOMAIN st_index_id_map :
                st_index_id_map[r] \notin st_op'.ids =>
                    /\ r \in DOMAIN st_index_id_map'
                    /\ st_index_id_map'[r] = st_index_id_map[r]]_vars

\* C36: once a backend was opened after a process died inside add or delete,
\* or after an index save that failed, an add and a search do not raise, a
\* search returns each record with the content of its own row of
\* memory_records, and an add leaves the row of every other id that has one
\* in the table, as it was.
C36_ReloadKeepsCommittedRows ==
    [][fl_phase = "reloaded" =>
        /\ st_op'.op \in {"add", "search"} => ~st_raised'
        /\ st_op'.op = "search" =>
                \A i \in DOMAIN st_result' :
                    /\ st_result'[i].id \in DOMAIN st_table'
                    /\ st_result'[i].content = st_table'[st_result'[i].id].content
        /\ st_op'.op = "add" =>
                \A k \in DOMAIN st_table \ {st_op'.last.id} :
                    /\ k \in DOMAIN st_table'
                    /\ st_table'[k] = st_table[k]]_vars

(***************************************************************************)
(* Claims about the counters and the ticks of the background loop.         *)
(***************************************************************************)
\* no tick is begun and not yet counted, and no tick is still on a thread
NoTickInFlight ==
    /\ rn_task /= "in_tick"
    /\ tr_pc /= "in_tick"
    /\ rn_thread /= "running"
    /\ tr_thread /= "running"
    /\ rn_orphans = 0

\* C37: whenever no tick is in flight, total_runs is the sum of
\* successful_runs and failed_runs, whatever start, the ticks of the loop,
\* trigger_once and stop have done, a stop that cancels the loop during a
\* tick included.
C37_RunsAddUp ==
    NoTickInFlight =>
        rn_stats.total_runs = rn_stats.successful_runs + rn_stats.failed_runs

\* the executions of the tick function that are on a thread
TicksExecuting ==
    (IF rn_thread = "running" THEN 1 ELSE 0)
        + (IF tr_thread = "running" THEN 1 ELSE 0)
        + rn_orphans

\* C38: at most one execution of the tick function is in progress at any
\* time, whatever the loop, trigger_once() and a stop() followed by start()
\* do; and while the task of a loop is there no start() makes a new one: no
\* task comes to its beginning but from no task at all.
C38_OneTickAtATime ==
    /\ [](TicksExecuting <= 1)
    /\ [][(rn_task /= "none" /\ rn_task' = "created")
            => (rn_task = "created" /\ rn_since' >= rn_since)]_vars

(***************************************************************************)
(* Claims about the registry of circuit breakers.                          *)
(***************************************************************************)
\* the breakers that were made for a key
MadeFor(key) == { i \in DOMAIN rg_objects : rg_objects[i].key = key }

\* C39: however concurrent calls of get_or_create interleave, at most one
\* CircuitBreaker is ever made for a key, and exactly one once a call for the
\* key has returned; every call that returned gave the breaker the store
\* holds for its key; and an entry of the store, once made, keeps its
\* breaker and the cfg it was made with, whatever cfg later calls pass.
C39_OneBreakerPerKey ==
    /\ [](/\ \A key \in RegistryKeys : Cardinality(MadeFor(key)) <= 1
          /\ \A t \in Threads :
                rg_got[t] /= NoBreaker =>
                    /\ MadeFor(rg_got[t].key) = {rg_got[t].obj}
                    /\ rg_store[rg_got[t].key].obj = rg_got[t].obj
                    /\ rg_store[rg_got[t].key].cfg = rg_objects[rg_got[t].obj].cfg)
    /\ [][\A key \in DOMAIN rg_store :
                /\ key \in DOMAIN rg_store'
                /\ rg_store'[key] = rg_store[key]]_vars

\* thread 1 holds the lock and has made the breaker of its key with cfg c1,
\* while thread 2 waits for the lock with the same key and cfg c2
C39_Witness ==
    /\ rg_lock = 1 /\ rg_pc[1] = "tested" /\ ~rg_missing[1]
    /\ rg_pc[2] = "call"
    /\ rg_arg[1].key = rg_arg[2].key
    /\ rg_arg[1].cfg = "c1" /\ rg_arg[2].cfg = "c2"
    /\ Len(rg_objects) = 1
    /\ rg_store[rg_arg[2].key] = [obj |-> 1, cfg |-> "c1"]

(***************************************************************************)
(* Claims about the state of the in-memory breaker under several threads.  *)
(***************************************************************************)
\* C40: whatever the threads do with one CircuitBreaker, one locked section
\* at a time, its state is such that opened_at is set only with failures at
\* or over the threshold, half_open holds only with opened_at not set and
\* failures at or over the threshold, and the count of trials lies between
\* 0 and half_open_trial_requests.
C40_BreakerStateIsSound ==
    /\ cb.opened_at /= NoTime => cb.failures >= FailureThreshold
    /\ cb.half_open => (cb.opened_at = NoTime /\ cb.failures >= FailureThreshold)
    /\ 0 <= cb.trials /\ cb.trials <= HalfOpenTrialRequests

\* the breaker is half-open with its trials used up: one thread is in its
\* trial call while another stands between the two locked sections of
\* before_call
C40_Witness ==
    /\ cb.half_open
    /\ cb.trials = HalfOpenTrialRequests
    /\ cb.failures >= FailureThreshold
    /\ \E t, u \in Threads :
            /\ tpc[t] = "admitted" /\ trial[t]
            /\ tpc[u] = "checked"

====
